---------------------------- MODULE Spec2Model ----------------------------
(***************************************************************************)
(* A model of the ArchGenie backend (src/backend/api.py): the text         *)
(* extraction, the Mermaid sanitizer, the Azure price resolvers with their *)
(* cache, the cost aggregation of price_items and the /mcp/azure/diagram-tf*)
(* handler.  Texts are TLA+ strings handled character by character; the    *)
(* regular expressions of the source are data (lists of nodes) run by a    *)
(* backtracking matcher with Python's priorities.  Money is an integer     *)
(* number of cents; catalog prices are integers of 1/10000 dollar.         *)
(* A TLA+ string cannot hold the grave accent of a Markdown fence: it is   *)
(* written as the apostrophe, and the texts of the model hold no           *)
(* apostrophe of their own.                                                *)
(***************************************************************************)
EXTENDS Integers, Sequences, FiniteSets, TLC

(***************************************************************************)
(* Python str                                                              *)
(***************************************************************************)
Ch(s, i) == SubSeq(s, i, i)

\* str.isspace() for the characters a TLA+ string can hold
WS == {" ", "\t", "\n", "\r", "\f"}

LowerAlpha == "abcdefghijklmnopqrstuvwxyz"
UpperAlpha == "ABCDEFGHIJKLMNOPQRSTUVWXYZ"
Digits == {"0", "1", "2", "3", "4", "5", "6", "7", "8", "9"}
LowerSet == {Ch(LowerAlpha, i) : i \in 1..Len(LowerAlpha)}
UpperSet == {Ch(UpperAlpha, i) : i \in 1..Len(UpperAlpha)}
\* \w of the re module (ASCII part)
WordChars == LowerSet \cup UpperSet \cup Digits \cup {"_"}

LowerCh(c) ==
  IF c \in UpperSet
    THEN Ch(LowerAlpha, CHOOSE i \in 1..Len(UpperAlpha) : Ch(UpperAlpha, i) = c)
    ELSE c

UpperCh(c) ==
  IF c \in LowerSet
    THEN Ch(UpperAlpha, CHOOSE i \in 1..Len(LowerAlpha) : Ch(LowerAlpha, i) = c)
    ELSE c

\* the least i in lo..hi with P(i), and hi + 1 when there is none
FirstSuch(lo, hi, P(_)) ==
  CHOOSE i \in lo..(hi + 1) : (i = hi + 1 \/ P(i)) /\ \A j \in lo..(i - 1) : ~P(j)

\* the greatest i in lo..hi with P(i), and lo - 1 when there is none
LastSuch(lo, hi, P(_)) ==
  hi - (FirstSuch(0, hi - lo, LAMBDA d : P(hi - d)))

\* "".join(parts[lo..hi]), by halves
RECURSIVE ConcatRange(_, _, _)
ConcatRange(parts, lo, hi) ==
  IF lo > hi THEN ""
  ELSE IF lo = hi THEN parts[lo]
  ELSE LET mid == (lo + hi) \div 2
       IN  ConcatRange(parts, lo, mid) \o ConcatRange(parts, mid + 1, hi)

Concat(parts) == ConcatRange(parts, 1, Len(parts))

\* the string made of f(c) for each character c of s
MapChars(s, f(_)) ==
  IF s = "" THEN "" ELSE Concat([i \in 1..Len(s) |-> f(Ch(s, i))])

\* str.lower()
PyLower(s) == MapChars(s, LowerCh)

\* s[i:] starts with t (i is 1-based); ci: compare case-insensitively
StartsAt(s, i, t, ci) ==
  /\ i + Len(t) - 1 <= Len(s)
  /\ IF ci THEN PyLower(SubSeq(s, i, i + Len(t) - 1)) = PyLower(t)
           ELSE SubSeq(s, i, i + Len(t) - 1) = t

\* str.startswith, str.endswith
PyStartsWith(s, t) == StartsAt(s, 1, t, FALSE)
PyEndsWith(s, t) == Len(t) <= Len(s) /\ SubSeq(s, Len(s) - Len(t) + 1, Len(s)) = t

\* t in s
PyContains(s, t) == \E i \in 1..(Len(s) - Len(t) + 1) : SubSeq(s, i, i + Len(t) - 1) = t

\* str.rstrip(chars), str.strip(chars); PyStrip(s) is str.strip()
PyRStripChars(s, chars) ==
  SubSeq(s, 1, LastSuch(1, Len(s), LAMBDA j : Ch(s, j) \notin chars))
PyStripChars(s, chars) ==
  SubSeq(s, FirstSuch(1, Len(s), LAMBDA i : Ch(s, i) \notin chars),
            LastSuch(1, Len(s), LAMBDA j : Ch(s, j) \notin chars))
PyRStrip(s) == PyRStripChars(s, WS)
PyStrip(s) == PyStripChars(s, WS)

\* str.splitlines(): the lines without their line breaks; "\r\n" is one break
\* and a final line break opens no further line
LineBreaks == {"\n", "\r", "\f"}

\* the positions where a line break ends (the "\n" of a "\r\n", else the break)
BreakEnds(s) ==
  {i \in 1..Len(s) :
     /\ Ch(s, i) \in LineBreaks
     /\ ~(Ch(s, i) = "\r" /\ i < Len(s) /\ Ch(s, i + 1) = "\n")}

PySplitLines(s) ==
  LET ends == BreakEnds(s)
      \* the position the k-th break ends at; 0 for k = 0
      EndOf(k) == IF k = 0 THEN 0
                  ELSE CHOOSE i \in ends : Cardinality({j \in ends : j <= i}) = k
      nb == Cardinality(ends)
      \* the line after the k-th break: up to the next break, or to the end
      LineAfter(k) ==
        LET from == EndOf(k) + 1
            to == IF k = nb THEN Len(s)
                  ELSE LET e == EndOf(k + 1)
                       IN  IF Ch(s, e) = "\n" /\ e > 1 /\ Ch(s, e - 1) = "\r"
                             THEN e - 2 ELSE e - 1
        IN  SubSeq(s, from, to)
      n == IF nb = 0 THEN (IF s = "" THEN 0 ELSE 1)
           ELSE IF EndOf(nb) = Len(s) THEN nb ELSE nb + 1
  IN  [k \in 1..n |-> LineAfter(k - 1)]

\* sep.join(parts)
PyJoin(sep, parts) ==
  IF Len(parts) = 0 THEN ""
  ELSE Concat([i \in 1..(2 * Len(parts) - 1) |->
                 IF i % 2 = 1 THEN parts[(i + 1) \div 2] ELSE sep])

\* str.replace(old, new) for an old of one character, as at every call site
PyReplace(s, old, new) == MapChars(s, LAMBDA c : IF c = old THEN new ELSE c)

(***************************************************************************)
(* Python re: a pattern is a sequence of nodes, matched left to right with *)
(* backtracking in the order the re module tries the alternatives (greedy: *)
(* longest first; lazy: shortest first; alternation: left to right).       *)
(* Positions are 1-based indexes of the next character to read.            *)
(***************************************************************************)
Lit(str) == [t |-> "lit", s |-> str, ci |-> FALSE]
LitI(str) == [t |-> "lit", s |-> str, ci |-> TRUE]
\* (a|b|...) of literals
Alt(strs) == [t |-> "alt", alts |-> strs, ci |-> FALSE]
AltI(strs) == [t |-> "alt", alts |-> strs, ci |-> TRUE]
\* [chars] and [^chars], once
In(chars) == [t |-> "rep", set |-> chars, neg |-> FALSE, min |-> 1, max |-> 1, greedy |-> TRUE]
NotIn(chars) == [t |-> "rep", set |-> chars, neg |-> TRUE, min |-> 1, max |-> 1, greedy |-> TRUE]
\* x*, x+, x?, x*? over a character class; max = -1: unbounded
Star(c) == [c EXCEPT !.min = 0, !.max = -1]
Plus(c) == [c EXCEPT !.min = 1, !.max = -1]
Opt(c) == [c EXCEPT !.min = 0, !.max = 1]
LazyStar(c) == [c EXCEPT !.min = 0, !.max = -1, !.greedy = FALSE]
\* ^ and $ (ml: re.MULTILINE), \b, ( ) of group g, (?=...)
Bol(ml) == [t |-> "bol", ml |-> ml]
Eol(ml) == [t |-> "eol", ml |-> ml]
WordB == [t |-> "wordb"]
GS(g) == [t |-> "gs", g |-> g]
GE(g) == [t |-> "ge", g |-> g]
Look(re) == [t |-> "look", re |-> re]
\* \s, \d, \w, ., [\s\S]
ReWS == In(WS)
ReDigit == In(Digits)
ReWord == In(WordChars)
ReDot == NotIn({"\n"})
ReAny == NotIn({})

\* the capture groups: no pattern of the source has more than two
NoCaps == [g \in {1, 2} |-> <<1, 1>>]
ReFail == [ok |-> FALSE, end |-> 0, caps |-> NoCaps]

\* the first of two attempts that matched
OrElse(m, other) == IF m.ok THEN m ELSE other

InClass(n, c) == IF n.neg THEN c \notin n.set ELSE c \in n.set

\* the number of characters from i on that are in the class of n, at most n.max
RunLen(s, i, n) ==
  LET hi == IF n.max = -1 \/ i + n.max - 1 > Len(s) THEN Len(s) ELSE i + n.max - 1
  IN  FirstSuch(i, hi, LAMBDA j : ~InClass(n, Ch(s, j))) - i

IsWordAt(s, i) == i >= 1 /\ i <= Len(s) /\ Ch(s, i) \in WordChars

RECURSIVE ReMatch(_, _, _, _, _)
RECURSIVE ReAlt(_, _, _, _, _, _)
RECURSIVE ReTry(_, _, _, _, _, _, _, _)
RECURSIVE ReRep(_, _, _, _, _, _)

\* the rest of pattern re from node k on, at position i of s
ReMatch(re, k, s, i, caps) ==
  IF k > Len(re) THEN [ok |-> TRUE, end |-> i, caps |-> caps]
  ELSE LET n == re[k] IN
    CASE n.t = "lit" ->
           IF StartsAt(s, i, n.s, n.ci)
             THEN ReMatch(re, k + 1, s, i + Len(n.s), caps) ELSE ReFail
      [] n.t = "alt" -> ReAlt(re, k, s, i, caps, 1)
      [] n.t = "rep" ->
           \* the counts in the order tried: greedy from run down to min,
           \* lazy from min up to run; the first that lets the rest match
           ReRep(re, k, s, i, caps, RunLen(s, i, n))
      [] n.t = "bol" ->
           IF i = 1 \/ (n.ml /\ Ch(s, i - 1) = "\n")
             THEN ReMatch(re, k + 1, s, i, caps) ELSE ReFail
      [] n.t = "eol" ->
           IF \/ i = Len(s) + 1
              \/ (i = Len(s) /\ Ch(s, i) = "\n")
              \/ (n.ml /\ i <= Len(s) /\ Ch(s, i) = "\n")
             THEN ReMatch(re, k + 1, s, i, caps) ELSE ReFail
      [] n.t = "wordb" ->
           IF IsWordAt(s, i - 1) # IsWordAt(s, i)
             THEN ReMatch(re, k + 1, s, i, caps) ELSE ReFail
      [] n.t = "gs" ->
           ReMatch(re, k + 1, s, i, [caps EXCEPT ![n.g] = <<i, i>>])
      [] n.t = "ge" ->
           ReMatch(re, k + 1, s, i, [caps EXCEPT ![n.g] = <<caps[n.g][1], i>>])
      [] n.t = "look" ->
           IF ReMatch(n.re, 1, s, i, caps).ok
             THEN ReMatch(re, k + 1, s, i, caps) ELSE ReFail

\* node k, a repetition over a run of run characters of its class
ReRep(re, k, s, i, caps, run) ==
  IF run < re[k].min THEN ReFail
  ELSE ReTry(re, k, s, i, caps, run, 0, run - re[k].min)

\* node k repeated, then the rest.  The counts are tried in the order greedy:
\* run, run - 1, ..., min; lazy: min, min + 1, ..., run; lo..hi are the ranks in
\* that order still to try, and the first that lets the rest match wins.
ReTry(re, k, s, i, caps, run, lo, hi) ==
  IF lo = hi
    THEN ReMatch(re, k + 1, s, i + (IF re[k].greedy THEN run - lo ELSE re[k].min + lo), caps)
    ELSE OrElse(ReTry(re, k, s, i, caps, run, lo, (lo + hi) \div 2),
                ReTry(re, k, s, i, caps, run, (lo + hi) \div 2 + 1, hi))

\* alternative a of node k, then the rest; on failure the next alternative
ReAlt(re, k, s, i, caps, a) ==
  IF a > Len(re[k].alts) THEN ReFail
  ELSE OrElse(IF StartsAt(s, i, re[k].alts[a], re[k].ci)
                THEN ReMatch(re, k + 1, s, i + Len(re[k].alts[a]), caps)
                ELSE ReFail,
              ReAlt(re, k, s, i, caps, a + 1))

\* a pattern with top-level alternation is a sequence of patterns
RECURSIVE ReMatchAny(_, _, _, _)
ReMatchAny(res, a, s, i) ==
  IF a > Len(res) THEN ReFail
  ELSE OrElse(ReMatch(res[a], 1, s, i, NoCaps), ReMatchAny(res, a + 1, s, i))

\* whether a match of re can begin at position i, by its first node alone
\* (a group opening first: by the node after it)
CanStart(re, s, i) ==
  LET k == IF re[1].t = "gs" THEN 2 ELSE 1
      n == re[k]
  IN  CASE n.t = "lit" -> StartsAt(s, i, n.s, n.ci)
        [] n.t = "bol" -> i = 1 \/ (n.ml /\ Ch(s, i - 1) = "\n")
        [] n.t = "rep" -> n.min = 0 \/ (i <= Len(s) /\ InClass(n, Ch(s, i)))
        [] OTHER -> TRUE

NoMatch == [ok |-> FALSE, start |-> 0, end |-> 0, caps |-> NoCaps]

\* the match r found at position i, as re.search reports it
FoundAt(i, r) ==
  IF r.ok THEN [ok |-> TRUE, start |-> i, end |-> r.end, caps |-> r.caps] ELSE NoMatch

\* the leftmost match that begins at a position in lo..hi
RECURSIVE ReSearchRange(_, _, _, _)
ReSearchRange(res, s, lo, hi) ==
  IF lo > hi THEN NoMatch
  ELSE IF lo = hi
    THEN IF \E a \in 1..Len(res) : CanStart(res[a], s, lo)
           THEN FoundAt(lo, ReMatchAny(res, 1, s, lo))
           ELSE NoMatch
    ELSE OrElse(ReSearchRange(res, s, lo, (lo + hi) \div 2),
                ReSearchRange(res, s, (lo + hi) \div 2 + 1, hi))

\* re.search from position i: the leftmost match, NoMatch when there is none;
\* start is the position the match begins at
ReSearchFrom(res, s, i) == ReSearchRange(res, s, i, Len(s) + 1)

ReSearch(re, s) == ReSearchFrom(<<re>>, s, 1)
\* re.match: at the start of the string only
ReMatchStart(re, s) == ReMatch(re, 1, s, 1, NoCaps)
\* m.group(g)
Group(s, m, g) == SubSeq(s, m.caps[g][1], m.caps[g][2] - 1)

\* a replacement is a sequence of parts: literal text, \g, or \g with a
\* character deleted (the lambda of the comma removal)
RLit(str) == [k |-> "lit", v |-> str]
RGrp(g) == [k |-> "grp", g |-> g]
RGrpDel(g, c) == [k |-> "grpdel", g |-> g, c |-> c]

RECURSIVE Expand(_, _, _, _)
Expand(repl, p, s, m) ==
  IF p > Len(repl) THEN ""
  ELSE LET part == repl[p] IN
       (CASE part.k = "lit" -> part.v
          [] part.k = "grp" -> Group(s, m, part.g)
          [] part.k = "grpdel" -> PyReplace(Group(s, m, part.g), part.c, ""))
       \o Expand(repl, p + 1, s, m)

\* re.sub(re, repl, s, count) from position i on: count = 0 replaces every
\* match.  m is the leftmost match from i on and rest the result for the text
\* after it.  After an empty match the scan moves on by one character.
RECURSIVE ReSubFrom(_, _, _, _, _)
ReSubStep(re, repl, s, i, count, m) ==
  IF ~m.ok THEN SubSeq(s, i, Len(s))
  ELSE IF count = 1
    THEN SubSeq(s, i, m.start - 1) \o Expand(repl, 1, s, m) \o SubSeq(s, m.end, Len(s))
  ELSE IF m.end > m.start
    THEN SubSeq(s, i, m.start - 1) \o Expand(repl, 1, s, m)
           \o ReSubFrom(re, repl, s, m.end, IF count = 0 THEN 0 ELSE count - 1)
  ELSE SubSeq(s, i, m.start - 1) \o Expand(repl, 1, s, m) \o Ch(s, m.start)
         \o (IF m.start > Len(s) THEN ""
             ELSE ReSubFrom(re, repl, s, m.start + 1, IF count = 0 THEN 0 ELSE count - 1))

ReSubFrom(re, repl, s, i, count) ==
  ReSubStep(re, repl, s, i, count, ReSearchFrom(<<re>>, s, i))

ReSub(re, repl, s) == ReSubFrom(re, repl, s, 1, 0)
ReSubFirst(re, repl, s) == ReSubFrom(re, repl, s, 1, 1)

(***************************************************************************)
(* Python json.loads: the decoder of the standard library, by recursive    *)
(* descent.  A decoded value is a record: t its type ("str", "num", "lit", *)
(* "arr", "obj"), truthy its truth value (bool(value)), s the text of a    *)
(* string, mem the members of an object in source order.  Characters a     *)
(* TLA+ string cannot hold (backspace, code points outside ASCII) are      *)
(* written "?", and surrogate pairs are not joined.                        *)
(***************************************************************************)
\* json.decoder.WHITESPACE
JsonWS == {" ", "\t", "\n", "\r"}
\* the characters below 0x20, which a strict decoder refuses inside a string
Ctl == {"\t", "\n", "\r", "\f"}

SkipWS(s, i) == FirstSuch(i, Len(s), LAMBDA k : Ch(s, k) \notin JsonWS)

JVal(type, truthy, str, mem) == [t |-> type, truthy |-> truthy, s |-> str, mem |-> mem]
JStr(str) == JVal("str", str # "", str, <<>>)
JOk(v, end) == [ok |-> TRUE, end |-> end, v |-> v]
\* json.JSONDecodeError
JErr == [ok |-> FALSE, end |-> 0, v |-> JVal("lit", FALSE, "", <<>>)]

\* the number of backslashes that stand directly before position j, from b on
BackslashRun(s, b, j) == (j - 1) - LastSuch(b, j - 1, LAMBDA k : Ch(s, k) # "\\")
\* a backslash that begins an escape of the string that begins at b
EscStart(s, b, k) == k >= b /\ k <= Len(s) /\ Ch(s, k) = "\\" /\ BackslashRun(s, b, k) % 2 = 0
\* the closing quote of the string that begins at b: the first quote not escaped
StringEnd(s, b) ==
  FirstSuch(b, Len(s), LAMBDA j : Ch(s, j) = "\"" /\ BackslashRun(s, b, j) % 2 = 0)

HexDigits == "0123456789abcdef"
IsHex(c) == \E i \in 1..Len(HexDigits) : Ch(HexDigits, i) = LowerCh(c)
HexVal(c) == (CHOOSE i \in 1..Len(HexDigits) : Ch(HexDigits, i) = LowerCh(c)) - 1
\* the four hex digits from position k on, as a number
Code4(s, k) ==
  4096 * HexVal(Ch(s, k)) + 256 * HexVal(Ch(s, k + 1))
    + 16 * HexVal(Ch(s, k + 2)) + HexVal(Ch(s, k + 3))
\* the characters of codes 32 to 126 (code 96, the grave accent, as "'")
Ascii ==
  " !\"#$%&'()*+,-./0123456789:;<=>?@ABCDEFGHIJKLMNOPQRSTUVWXYZ[\\]^_'abcdefghijklmnopqrstuvwxyz{|}~"
\* chr(n)
CodeChar(n) ==
  IF n >= 32 /\ n <= 126 THEN Ch(Ascii, n - 31)
  ELSE IF n = 9 THEN "\t" ELSE IF n = 10 THEN "\n"
  ELSE IF n = 12 THEN "\f" ELSE IF n = 13 THEN "\r" ELSE "?"
\* json.decoder.BACKSLASH
SimpleEsc == {"\"", "\\", "/", "b", "f", "n", "r", "t"}
EscChar(c) ==
  IF c = "b" THEN "?" ELSE IF c = "f" THEN "\f" ELSE IF c = "n" THEN "\n"
  ELSE IF c = "r" THEN "\r" ELSE IF c = "t" THEN "\t" ELSE c

\* the body b..e-1 of a string holds no control character and only escapes
\* the decoder knows
StringValid(s, b, e) ==
  \A k \in b..(e - 1) :
    /\ Ch(s, k) \notin Ctl
    /\ EscStart(s, b, k) =>
         \/ Ch(s, k + 1) \in SimpleEsc
         \/ /\ Ch(s, k + 1) = "u"
            /\ k + 5 <= e - 1
            /\ \A d \in 2..5 : IsHex(Ch(s, k + d))

\* what the character at position k of a valid body adds to the decoded text
Piece(s, b, k) ==
  IF EscStart(s, b, k) THEN ""
  ELSE IF EscStart(s, b, k - 1)
    THEN IF Ch(s, k) = "u" THEN CodeChar(Code4(s, k + 1)) ELSE EscChar(Ch(s, k))
  ELSE IF \E d \in 2..5 : EscStart(s, b, k - d) /\ Ch(s, k - d + 1) = "u" THEN ""
  ELSE Ch(s, k)

\* scanstring for the body b..e-1, e the closing quote
ParseStringTo(s, b, e) ==
  IF e > Len(s) \/ ~StringValid(s, b, e) THEN JErr
  ELSE JOk(JStr(Concat([k \in 1..(e - b) |-> Piece(s, b, b + k - 1)])), e + 1)

\* scanstring: position i holds the opening quote
ParseString(s, i) == ParseStringTo(s, i + 1, StringEnd(s, i + 1))

IsDigitAt(s, i) == i >= 1 /\ i <= Len(s) /\ Ch(s, i) \in Digits
DigitsEnd(s, i) == FirstSuch(i, Len(s), LAMBDA k : Ch(s, k) \notin Digits)

\* NUMBER_RE = (-?(?:0|[1-9]\d*))(\.\d+)?([eE][-+]?\d+)? : the position after
\* the integer part that begins at i (i itself when there is none), after the
\* fraction that begins at j, after the exponent that begins at j
IntDigitsAt(s, i) == IF i <= Len(s) /\ Ch(s, i) = "-" THEN i + 1 ELSE i
IntEnd(s, i) ==
  IF ~IsDigitAt(s, IntDigitsAt(s, i)) THEN i
  ELSE IF Ch(s, IntDigitsAt(s, i)) = "0" THEN IntDigitsAt(s, i) + 1
  ELSE DigitsEnd(s, IntDigitsAt(s, i))
FracEnd(s, j) ==
  IF j <= Len(s) /\ Ch(s, j) = "." /\ IsDigitAt(s, j + 1) THEN DigitsEnd(s, j + 1) ELSE j
ExpDigitsAt(s, j) == IF j + 1 <= Len(s) /\ Ch(s, j + 1) \in {"+", "-"} THEN j + 2 ELSE j + 1
ExpEnd(s, j) ==
  IF j <= Len(s) /\ Ch(s, j) \in {"e", "E"} /\ IsDigitAt(s, ExpDigitsAt(s, j))
    THEN DigitsEnd(s, ExpDigitsAt(s, j)) ELSE j
NumEnd(s, i) == IF IntEnd(s, i) = i THEN i ELSE ExpEnd(s, FracEnd(s, IntEnd(s, i)))

DigitVal(c) == (CHOOSE i \in 1..10 : Ch(HexDigits, i) = c) - 1
\* int(s[lo..hi]) for a run of digits, capped at cap
RECURSIVE DecVal(_, _, _, _)
DecVal(s, lo, hi, cap) ==
  IF lo > hi THEN 0
  ELSE IF 10 * DecVal(s, lo, hi - 1, cap) + DigitVal(Ch(s, hi)) > cap THEN cap
  ELSE 10 * DecVal(s, lo, hi - 1, cap) + DigitVal(Ch(s, hi))

\* the exponent of the number whose mantissa ends at m and which ends at e
ExpOf(s, m, e) ==
  IF e = m THEN 0
  ELSE IF Ch(s, m + 1) = "-" THEN 0 - DecVal(s, ExpDigitsAt(s, m), e - 1, 100000)
  ELSE DecVal(s, ExpDigitsAt(s, m), e - 1, 100000)

\* the first mantissa digit that is not 0 (m when every digit is 0), the
\* mantissa being s[d..m-1] with its "." at position ie or none
LeadAt(s, d, m) == FirstSuch(d, m - 1, LAMBDA k : Ch(s, k) \notin {"0", "."})
\* the power of ten of the digit at position k
PowerAt(k, ie, ex) == (IF k < ie THEN ie - 1 - k ELSE ie - k) + ex
\* the first five significant digits from position k on, as a number
LeadDigit(s, k, m) == IF k < m /\ Ch(s, k) \in Digits THEN DigitVal(Ch(s, k)) ELSE 0
SkipDot(s, k, m) == IF k < m /\ Ch(s, k) = "." THEN k + 1 ELSE k
Lead5(s, k, m) ==
  10000 * LeadDigit(s, k, m)
    + 1000 * LeadDigit(s, SkipDot(s, k + 1, m), m)
    + 100 * LeadDigit(s, SkipDot(s, SkipDot(s, k + 1, m) + 1, m), m)
    + 10 * LeadDigit(s, SkipDot(s, SkipDot(s, SkipDot(s, k + 1, m) + 1, m) + 1, m), m)
    + LeadDigit(s, SkipDot(s, SkipDot(s, SkipDot(s, SkipDot(s, k + 1, m) + 1, m) + 1, m) + 1, m), m)

\* bool(number): false for zero, and a float below half the least subnormal
\* (2^-1075, about 2.4703e-324) is zero
NumTruthyAt(s, lead, m, ie, ex, isInt) ==
  /\ lead < m
  /\ \/ isInt
     \/ PowerAt(lead, ie, ex) > -324
     \/ PowerAt(lead, ie, ex) = -324 /\ Lead5(s, lead, m) > 24703
NumTruthy(s, i, ie, m, e) ==
  NumTruthyAt(s, LeadAt(s, IntDigitsAt(s, i), m), m, ie, ExpOf(s, m, e), e = ie)

\* the number that begins at i: its integer part ends at ie, its mantissa at m
ParseNumberTo(s, i, ie, m, e) == JOk(JVal("num", NumTruthy(s, i, ie, m, e), "", <<>>), e)
ParseNumber(s, i) ==
  ParseNumberTo(s, i, IntEnd(s, i), FracEnd(s, IntEnd(s, i)), NumEnd(s, i))

RECURSIVE ParseValue(_, _)
RECURSIVE ParseMembers(_, _, _)
RECURSIVE ParseElems(_, _)

\* JSONObject: after a member, "}" ends the object and "," needs another one
MemberNext(s, k, mem) ==
  IF k > Len(s) THEN JErr
  ELSE IF Ch(s, k) = "}" THEN JOk(JVal("obj", TRUE, "", mem), k + 1)
  ELSE IF Ch(s, k) = "," THEN ParseMembers(s, SkipWS(s, k + 1), mem)
  ELSE JErr
MemberValue(s, key, val, mem) ==
  IF ~val.ok THEN JErr
  ELSE MemberNext(s, SkipWS(s, val.end), Append(mem, [k |-> key.v.s, v |-> val.v]))
MemberColon(s, key, j, mem) ==
  IF j > Len(s) \/ Ch(s, j) # ":" THEN JErr
  ELSE MemberValue(s, key, ParseValue(s, SkipWS(s, j + 1)), mem)
MemberKey(s, key, mem) ==
  IF ~key.ok THEN JErr ELSE MemberColon(s, key, SkipWS(s, key.end), mem)
\* position i must hold the opening quote of a key
ParseMembers(s, i, mem) ==
  IF i > Len(s) \/ Ch(s, i) # "\"" THEN JErr ELSE MemberKey(s, ParseString(s, i), mem)
\* position i follows "{" and the white space after it
ParseObject(s, i) ==
  IF i <= Len(s) /\ Ch(s, i) = "}" THEN JOk(JVal("obj", FALSE, "", <<>>), i + 1)
  ELSE ParseMembers(s, i, <<>>)

\* JSONArray: after an element, "]" ends the array and "," needs another one
ElemNext(s, k) ==
  IF k > Len(s) THEN JErr
  ELSE IF Ch(s, k) = "]" THEN JOk(JVal("arr", TRUE, "", <<>>), k + 1)
  ELSE IF Ch(s, k) = "," THEN ParseElems(s, SkipWS(s, k + 1))
  ELSE JErr
ElemValue(s, val) == IF ~val.ok THEN JErr ELSE ElemNext(s, SkipWS(s, val.end))
ParseElems(s, i) == ElemValue(s, ParseValue(s, i))
\* position i follows "[" and the white space after it
ParseArray(s, i) ==
  IF i <= Len(s) /\ Ch(s, i) = "]" THEN JOk(JVal("arr", FALSE, "", <<>>), i + 1)
  ELSE ParseElems(s, i)

\* scan_once: the value that begins at position i
ParseValue(s, i) ==
  IF i > Len(s) THEN JErr
  ELSE IF Ch(s, i) = "\"" THEN ParseString(s, i)
  ELSE IF Ch(s, i) = "{" THEN ParseObject(s, SkipWS(s, i + 1))
  ELSE IF Ch(s, i) = "[" THEN ParseArray(s, SkipWS(s, i + 1))
  ELSE IF StartsAt(s, i, "null", FALSE) THEN JOk(JVal("lit", FALSE, "", <<>>), i + 4)
  ELSE IF StartsAt(s, i, "true", FALSE) THEN JOk(JVal("lit", TRUE, "", <<>>), i + 4)
  ELSE IF StartsAt(s, i, "false", FALSE) THEN JOk(JVal("lit", FALSE, "", <<>>), i + 5)
  ELSE IF NumEnd(s, i) > i THEN ParseNumber(s, i)
  ELSE IF StartsAt(s, i, "NaN", FALSE) THEN JOk(JVal("num", TRUE, "", <<>>), i + 3)
  ELSE IF StartsAt(s, i, "Infinity", FALSE) THEN JOk(JVal("num", TRUE, "", <<>>), i + 8)
  ELSE IF StartsAt(s, i, "-Infinity", FALSE) THEN JOk(JVal("num", TRUE, "", <<>>), i + 9)
  ELSE JErr

\* JSONDecoder.decode: one value, white space around it, and nothing else
JsonWhole(s, r) == IF r.ok /\ SkipWS(s, r.end) = Len(s) + 1 THEN r ELSE JErr
JsonLoads(s) == JsonWhole(s, ParseValue(s, SkipWS(s, 1)))

\* dict.get(key, ""): the last member of that key wins
ObjGetAt(v, idx) == IF idx = 0 THEN JStr("") ELSE v.mem[idx].v
ObjGet(v, key) == ObjGetAt(v, LastSuch(1, Len(v.mem), LAMBDA m : v.mem[m].k = key))

(***************************************************************************)
(* strip_fences and extract_json_or_fences.  A call either returns or      *)
(* raises: exc is "none" or the class of the exception raised.             *)
(***************************************************************************)
\* ^'''lang\s*\n([\s\S]*?)'''$   IGNORECASE
LangFenceRe(lang) ==
  <<Bol(FALSE), LitI("'''" \o lang), Star(ReWS), Lit("\n"),
    GS(1), LazyStar(ReAny), GE(1), Lit("'''"), Eol(FALSE)>>
\* ^'''\s*\n?([\s\S]*?)'''$
AnyFenceRe ==
  <<Bol(FALSE), Lit("'''"), Star(ReWS), Opt(In({"\n"})),
    GS(1), LazyStar(ReAny), GE(1), Lit("'''"), Eol(FALSE)>>
\* '''mermaid\s*\n([\s\S]*?)'''   IGNORECASE
MermaidBlockRe ==
  <<LitI("'''mermaid"), Star(ReWS), Lit("\n"), GS(1), LazyStar(ReAny), GE(1), Lit("'''")>>
\* '''(terraform|hcl)\s*\n([\s\S]*?)'''   IGNORECASE
TerraformBlockRe ==
  <<LitI("'''"), GS(1), AltI(<<"terraform", "hcl">>), GE(1), Star(ReWS), Lit("\n"),
    GS(2), LazyStar(ReAny), GE(2), Lit("'''")>>

\* if m: return m.group(g).strip(), else the next attempt
GroupOr(s, m, g, other) == IF m.ok THEN PyStrip(Group(s, m, g)) ELSE other

\* strip_fences from "s = text.strip()" on, s being the stripped text
StripFencesOf(s) ==
  GroupOr(s, ReMatchStart(LangFenceRe("mermaid"), s), 1,
    GroupOr(s, ReMatchStart(LangFenceRe("hcl"), s), 1,
      GroupOr(s, ReMatchStart(LangFenceRe("terraform"), s), 1,
        GroupOr(s, ReMatchStart(LangFenceRe("json"), s), 1,
          GroupOr(s, ReMatchStart(AnyFenceRe, s), 1, s)))))

Returned(val) == [exc |-> "none", val |-> val]
Raised(exc) == [exc |-> exc, val |-> ""]

\* strip_fences(text) for a decoded JSON value: a falsy value gives "", and a
\* truthy value that is no string has no strip()
strip_fences(v) ==
  IF ~v.truthy THEN Returned("")
  ELSE IF v.t # "str" THEN Raised("AttributeError")
  ELSE Returned(StripFencesOf(PyStrip(v.s)))

\* the result of extract_json_or_fences: the dict returned or the exception
Extracted(d, tf) == [exc |-> "none", diagram |-> d, terraform |-> tf]
ExtractRaised(exc) == [exc |-> exc, diagram |-> "", terraform |-> ""]

\* the dict display of the try block: the diagram entry is evaluated first
BothFields(d, tf) ==
  IF d.exc # "none" THEN ExtractRaised(d.exc)
  ELSE IF tf.exc # "none" THEN ExtractRaised(tf.exc)
  ELSE Extracted(d.val, tf.val)

\* the try block on the outcome r of json.loads(content); only a dict has get()
TryFields(r) ==
  IF ~r.ok THEN ExtractRaised("JSONDecodeError")
  ELSE IF r.v.t # "obj" THEN ExtractRaised("AttributeError")
  ELSE BothFields(strip_fences(ObjGet(r.v, "diagram")),
                  strip_fences(ObjGet(r.v, "terraform")))

\* the search for fenced blocks after the except clause
FromFences(content) ==
  Extracted(GroupOr(content, ReSearch(MermaidBlockRe, content), 1, ""),
            GroupOr(content, ReSearch(TerraformBlockRe, content), 2, ""))

\* the classes derived from Exception among those the model raises
IsException(exc) ==
  exc \in {"JSONDecodeError", "AttributeError", "ValueError", "HTTPException", "RequestException",
           "KeyError"}

\* an except clause that catches the decoder's error only
ExtractCatches_DecodeOnly(exc) == exc = "JSONDecodeError"

\* except Exception: pass
ExtractCatches(exc) == IsException(exc)

\* the try statement, tried being the outcome of its body
AfterTry(content, tried) ==
  IF tried.exc = "none" THEN tried
  ELSE IF ExtractCatches(tried.exc) THEN FromFences(content)
  ELSE tried

extract_json_or_fences(content) ==
  IF content = "" THEN Extracted("", "")
  ELSE AfterTry(content, TryFields(JsonLoads(content)))

(***************************************************************************)
(* sanitize_mermaid                                                        *)
(***************************************************************************)
\* ^(graph|flowchart)\s+(TD|LR)\b   IGNORECASE | MULTILINE
header_re ==
  <<Bol(TRUE), AltI(<<"graph", "flowchart">>), Plus(ReWS), AltI(<<"TD", "LR">>), WordB>>

\* ^\s*subgraph\s+([^\[\n"]+)\s*\(([^)]+)\)\s*;?\s*$   MULTILINE
SubgraphTitleRe ==
  <<Bol(TRUE), Star(ReWS), Lit("subgraph"), Plus(ReWS),
    GS(1), Plus(NotIn({"[", "\n", "\""})), GE(1),
    Star(ReWS), Lit("("), GS(2), Plus(NotIn({")"})), GE(2), Lit(")"),
    Star(ReWS), Opt(In({";"})), Star(ReWS), Eol(TRUE)>>
\* subgraph "\1 (\2)"
SubgraphTitleRepl == <<RLit("subgraph \""), RGrp(1), RLit(" ("), RGrp(2), RLit(")\"")>>

\* ^(?P<hdr>\s*subgraph\b[^\n;]*?);+\s*$   MULTILINE
SubgraphSemiRe ==
  <<Bol(TRUE), GS(1), Star(ReWS), Lit("subgraph"), WordB,
    LazyStar(NotIn({"\n", ";"})), GE(1), Plus(In({";"})), Star(ReWS), Eol(TRUE)>>
SubgraphSemiRepl == <<RGrp(1)>>

\* -\.\s+([^.|><\-\n][^.|><\-\n]*?)\s+\.\->
DottedLabelChars == {".", "|", ">", "<", "-", "\n"}
DottedLabelRe ==
  <<Lit("-."), Plus(ReWS), GS(1), NotIn(DottedLabelChars),
    LazyStar(NotIn(DottedLabelChars)), GE(1), Plus(ReWS), Lit(".->")>>
\* -. |\1| .->
DottedLabelRepl == <<RLit("-. |"), RGrp(1), RLit("| .->")>>

\* (\]|\))\s*(?=[A-Za-z0-9_]+\s*(?:-|\.))
NewlineInsertRe ==
  <<GS(1), In({"]", ")"}), GE(1), Star(ReWS),
    Look(<<Plus(ReWord), Star(ReWS), In({"-", "."})>>)>>
NewlineInsertRepl == <<RGrp(1), RLit("\n")>>

\* \[(.*?)\]  replaced by "[" + group(1).replace(",", "") + "]"
LabelRe == <<Lit("["), GS(1), LazyStar(ReDot), GE(1), Lit("]")>>
LabelRepl == <<RLit("["), RGrpDel(1, ","), RLit("]")>>

\* the body of the loop over s.splitlines() for a stripped line: the line
\* appended to out_lines
SanitizeStripped(just) ==
  IF just = "" THEN ""
  ELSE IF PyStartsWith(just, "subgraph") \/ just = "end" THEN just
  ELSE IF \/ PyContains(just, "--") \/ PyContains(just, ".->")
          \/ PyContains(just, "---") \/ PyContains(just, "<->")
    THEN IF PyEndsWith(just, ";") THEN just ELSE just \o ";"
    ELSE PyRStripChars(just, {";"})

\* just = line.rstrip().strip()
SanitizeLine(line) == SanitizeStripped(PyStrip(PyRStrip(line)))

\* "\n".join(out_lines)
JoinSanitized(lines) ==
  PyJoin("\n", [i \in 1..Len(lines) |-> SanitizeLine(lines[i])])

SanitizeLines(s) == JoinSanitized(PySplitLines(s))

\* a sanitizer that never prepends the header
EnsureHeader_NoPrepend(s) == ReSubFirst(header_re, <<RLit("flowchart TD")>>, s)

\* the header step: normalize the first header found, else prepend one
EnsureHeader(s) ==
  IF ReSearch(header_re, s).ok
    THEN ReSubFirst(header_re, <<RLit("flowchart TD")>>, s)
    ELSE "flowchart TD\n" \o s

RemoveLabelCommas(s) == ReSub(LabelRe, LabelRepl, s)

InsertNewlines(s) == ReSub(NewlineInsertRe, NewlineInsertRepl, s)

EnsureTrailingNewline(s) == IF PyEndsWith(s, "\n") THEN s ELSE s \o "\n"

QuoteSubgraphTitles(s) == ReSub(SubgraphTitleRe, SubgraphTitleRepl, s)

StripSubgraphSemis(s) == ReSub(SubgraphSemiRe, SubgraphSemiRepl, s)

LabelDottedEdges(s) == ReSub(DottedLabelRe, DottedLabelRepl, s)

\* the steps of the sanitizer, innermost first
sanitize_mermaid(src) ==
  IF src = "" THEN src
  ELSE EnsureTrailingNewline(
         RemoveLabelCommas(
           InsertNewlines(
             SanitizeLines(
               LabelDottedEdges(
                 StripSubgraphSemis(
                   QuoteSubgraphTitles(
                     EnsureHeader(PyStrip(src)))))))))

(***************************************************************************)
(* Pricing: configuration, the price cache, the retail price catalog and   *)
(* its HTTP client.  A price is an integer number of cents, a retailPrice  *)
(* of the catalog an integer of 1/10000 dollar, and decimal arithmetic     *)
(* stands for the binary floating point of the source: the two agree but   *)
(* for amounts that lie exactly between two cents, which the prices and    *)
(* hours of the model avoid.                                               *)
(***************************************************************************)
\* the setting read from the environment at start: live prices are looked up
VARIABLE USE_LIVE_AZURE_PRICES
HOURS_PER_MONTH == 730
DEFAULT_REGION == "eastus"
DEFAULT_APPGW_CAPACITY_UNITS == 1
DEFAULT_SQL_COMPUTE_ONLY == TRUE
DEFAULT_LB_RULES == 2
DEFAULT_LB_DATA_GB == 100
\* ttl_sec of cache_put
TTL == 3600

\* Optional[...]: None or a value
None == [some |-> FALSE, v |-> 0]
Some(v) == [some |-> TRUE, v |-> v]

\* round(n / d) for n >= 0, d > 0: to the nearest integer, a tie to the even one
RoundHalfEven(n, d) ==
  IF 2 * (n % d) < d THEN n \div d
  ELSE IF 2 * (n % d) > d THEN n \div d + 1
  ELSE IF (n \div d) % 2 = 0 THEN n \div d ELSE n \div d + 1

\* a cache that still serves an entry at the moment of its expiry
cache_get_AtExpiry(cache, key, now) ==
  IF key \notin DOMAIN cache THEN None
  ELSE IF cache[key].exp >= now THEN Some(cache[key].val) ELSE None

\* cache_get: the value stored under key while its expiry lies after now
cache_get(cache, key, now) ==
  IF key \notin DOMAIN cache THEN None
  ELSE IF cache[key].exp > now THEN Some(cache[key].val) ELSE None

\* a cache that stores nothing
cache_put_Forget(cache, key, value, now, ttl_sec) == cache

\* cache_put: the cache with (value, now + ttl_sec) under key
cache_put(cache, key, value, now, ttl_sec) ==
  [k \in DOMAIN cache \cup {key} |->
     IF k = key THEN [val |-> value, exp |-> now + ttl_sec] ELSE cache[k]]

REGION_NAME_MAP ==
  [eastus |-> "US East", eastus2 |-> "US East 2", centralus |-> "US Central",
   westus |-> "US West", westus2 |-> "US West 2",
   southcentralus |-> "US South Central", northcentralus |-> "US North Central",
   westeurope |-> "EU West", northeurope |-> "EU North"]

\* str.title(): a letter is upper case after a character that is no letter
IsLetterAt(s, i) == i >= 1 /\ i <= Len(s) /\ Ch(s, i) \in LowerSet \cup UpperSet
PyTitle(s) ==
  IF s = "" THEN ""
  ELSE Concat([i \in 1..Len(s) |->
                 IF IsLetterAt(s, i - 1) THEN LowerCh(Ch(s, i)) ELSE UpperCh(Ch(s, i))])

\* the sequence without the later copies of its elements
Dedup(seq) ==
  SelectSeq([i \in 1..Len(seq) |-> [i |-> i, x |-> seq[i]]],
            LAMBDA e : \A j \in 1..(e.i - 1) : seq[j] # e.x)
Unwrap(pairs) == [i \in 1..Len(pairs) |-> pairs[i].x]
Reverse(seq) == [i \in 1..Len(seq) |-> seq[Len(seq) + 1 - i]]

\* the names added to the set of variants, in the order of the source, r
\* being region.strip()
VariantList(r) ==
  <<r, PyLower(r)>>
    \o (IF PyLower(r) \in DOMAIN REGION_NAME_MAP THEN <<REGION_NAME_MAP[PyLower(r)]>> ELSE <<>>)
    \o <<PyReplace(r, "-", " "), PyTitle(PyReplace(r, "-", " "))>>
    \o (IF PyEndsWith(PyLower(r), "us") /\ Len(r) > 2
          THEN <<PyTitle(SubSeq(r, 1, Len(r) - 2)) \o " US">> ELSE <<>>)

\* variants that hold the region as it was given and nothing else
region_variants_CodeOnly(region, seed) ==
  IF region = "" THEN <<>> ELSE <<PyStrip(region)>>

\* region_variants: list(variants).  The order of a set of strings depends on
\* the hash seed of the process: seed 0 gives the order of insertion, seed 1
\* its reverse.
region_variants(region, seed) ==
  IF region = "" THEN <<>>
  ELSE IF seed = 0 THEN Unwrap(Dedup(VariantList(PyStrip(region))))
  ELSE Reverse(Unwrap(Dedup(VariantList(PyStrip(region)))))

\* a row of the catalog (https://prices.azure.com/api/retail/prices)
Row(svc, prod, sku, reg, meter, uom, price) ==
  [serviceName |-> svc, productName |-> prod, skuName |-> sku, armRegionName |-> reg,
   meterName |-> meter, unitOfMeasure |-> uom, retailPrice |-> price]

RetailRows ==
  <<Row("Virtual Machines", "Virtual Machines BS Series Windows", "B2s", "eastus", "B2s", "1 Hour", 496),
    Row("Virtual Machines", "Virtual Machines BS Series", "B2s", "eastus", "B2s", "1 Hour", 416),
    Row("Virtual Machines", "Virtual Machines BS Series", "B2s", "eastus", "B2s Reserved", "1 Year", 2130000),
    Row("Azure App Service", "Azure App Service Standard Plan", "S1", "eastus", "S1 App", "1 Hour", 1000),
    Row("SQL Database", "SQL Database Single Standard", "S0", "eastus", "S0 DTUs", "1/Day", 4839),
    Row("SQL Database", "SQL Database Single Standard", "S0", "eastus", "S0 Backup Storage", "1 GB/Month", 2000),
    Row("Storage", "Blob Storage", "Hot LRS", "eastus", "Hot LRS Data Stored", "1 GB/Month", 208),
    Row("Storage", "Blob Storage", "Hot GRS", "eastus", "Hot GRS Data Stored", "1 GB/Month", 458),
    Row("Load Balancer", "Load Balancer", "Standard", "eastus", "Standard Included LB Rules and Outbound Rules", "1 Hour", 250),
    Row("Load Balancer", "Load Balancer", "Standard", "eastus", "Standard Data Processed", "1 GB", 60),
    Row("Application Gateway", "Application Gateway WAF v2", "Standard", "eastus", "Standard Fixed Cost Gateway", "1 Hour", 4430),
    Row("Application Gateway", "Application Gateway WAF v2", "Standard", "eastus", "Standard Capacity Units Capacity Unit", "1 Hour", 144),
    Row("Virtual Machines", "Virtual Machines BS Series", "B2s", "westeurope", "B2s", "1 Hour", 480),
    Row("Virtual Machines", "Virtual Machines BS Series", "B2s", "US East 2", "B2s", "1 Hour", 520),
    Row("Storage", "Blob Storage", "Hot LRS", "northeurope", "Hot LRS Data Stored", "1 GB/Month", 208),
    Row("Storage", "Blob Storage", "Archive LRS", "northeurope", "Archive LRS Data Stored", "1 GB/Month", 9),
    Row("Azure App Service", "Azure App Service Standard Plan", "S1", "westus", "S1 App", "1 Hour", 1000),
    Row("App Service", "App Service Plan", "S1", "westus", "S1 Plan", "1/Month", 500000)>>

\* an OData $filter: "" for a condition the filter does not hold; every filter
\* of the source ends with "retailPrice ne 0"
Flt(svc, prod, sku, skuHas, meterHas, reg) ==
  [svc |-> svc, prod |-> prod, sku |-> sku, skuHas |-> skuHas, meterHas |-> meterHas, reg |-> reg]

RowMatches(q, row) ==
  /\ q.svc = "" \/ row.serviceName = q.svc
  /\ q.prod = "" \/ PyContains(row.productName, q.prod)
  /\ q.sku = "" \/ row.skuName = q.sku
  /\ q.skuHas = "" \/ PyContains(row.skuName, q.skuHas)
  /\ q.meterHas = "" \/ PyContains(row.meterName, q.meterHas)
  /\ row.armRegionName = q.reg
  /\ row.retailPrice # 0

\* the rows the catalog holds for a filter, in the order in which the service
\* lists them, served PageSize rows to a page
Listed(net) == IF net.order = "reversed" THEN Reverse(RetailRows) ELSE RetailRows
Matching(net, q) == SelectSeq(Listed(net), LAMBDA row : RowMatches(q, row))
PageSize == 2
PageOf(rows, p) ==
  SubSeq(rows, (p - 1) * PageSize + 1,
         IF p * PageSize < Len(rows) THEN p * PageSize ELSE Len(rows))
\* the page carries a NextPageLink
HasNextPage(rows, p) == p * PageSize < Len(rows)

\* The network as the client sees it.  mode: "ok"; "transport" (every request
\* raises); "busy" (every response is 503); "denied" (every response is 404);
\* "flaky" (the first attempt of a request raises, the next succeeds);
\* "hiccup" (the first response is 503, the next 200); "endless" (every
\* response is 200 and every page carries a NextPageLink, the pages after the
\* last row being empty); a name of StatusTable (every response has that
\* status).  only: the serviceName the mode applies
\* to, "" for every request.  order: the order in which the service lists the
\* rows of an answer, "listed" or "reversed".
NetIn(mode, only, order) == [mode |-> mode, only |-> only, order |-> order]
Net(mode, only) == NetIn(mode, only, "listed")
NetModes == {"ok", "transport", "busy", "denied", "flaky"}
AppliesTo(net, q) == net.only = "" \/ net.only = q.svc \/ (q.svc = "" /\ PyContains(q.prod, net.only))
\* what attempt number attempt (from 0) of a request for q meets
RequestOutcome(net, q, attempt) ==
  IF ~AppliesTo(net, q) THEN "ok"
  ELSE IF net.mode = "flaky" THEN (IF attempt = 0 THEN "transport" ELSE "ok")
  ELSE IF net.mode = "hiccup" THEN (IF attempt = 0 THEN "busy" ELSE "ok")
  ELSE IF net.mode = "endless" THEN "ok"
  ELSE net.mode
\* j.get("NextPageLink") is set on page p of the answer to q
NextLink(net, q, p) ==
  (net.mode = "endless" /\ AppliesTo(net, q)) \/ HasNextPage(Matching(net, q), p)

\* a retry on every status from 500 on
RetryStatuses_All5xx == {408, 409, 429} \cup (500..599)

\* the statuses http_get_json and http_post_json retry
RetryStatuses == {408, 409, 429, 500, 502, 503, 504}

\* the status code of the response an attempt meets
StatusTable ==
  [ok |-> 200, busy |-> 503, denied |-> 404, s204 |-> 204, s301 |-> 301,
   s400 |-> 400, s408 |-> 408, s409 |-> 409, s429 |-> 429, s500 |-> 500,
   s501 |-> 501, s502 |-> 502, s504 |-> 504, s505 |-> 505]
StatusOf(outcome) == StatusTable[outcome]

\* http_get_json from attempt number attempt on: the response status or the
\* exception raised, and n, the number of requests sent
RECURSIVE http_get_json(_, _, _, _)
http_get_json(net, q, max_retries, attempt) ==
  IF RequestOutcome(net, q, attempt) = "transport"
    THEN IF attempt < max_retries THEN http_get_json(net, q, max_retries, attempt + 1)
         ELSE [exc |-> "RequestException", status |-> 0, n |-> attempt + 1]
  ELSE IF StatusOf(RequestOutcome(net, q, attempt)) < 300
    THEN [exc |-> "none", status |-> StatusOf(RequestOutcome(net, q, attempt)), n |-> attempt + 1]
  ELSE IF StatusOf(RequestOutcome(net, q, attempt)) \in RetryStatuses /\ attempt < max_retries
    THEN http_get_json(net, q, max_retries, attempt + 1)
  ELSE [exc |-> "none", status |-> StatusOf(RequestOutcome(net, q, attempt)), n |-> attempt + 1]

\* the cap on the pages one fetch follows
MaxTries == 20

\* what a fetch ends with: the exception it raises or the items it returns,
\* n the requests sent and pages the pages asked for
Fetched(items, n, pages) == [exc |-> "none", items |-> items, n |-> n, pages |-> pages]
FetchRaised(exc, n, pages) == [exc |-> exc, items |-> <<>>, n |-> n, pages |-> pages]

\* azure_retail_prices_fetch, the loop from its tries-th round on: page is the
\* page the url points at, out the items gathered, n the requests sent so far
RECURSIVE FetchLoop(_, _, _, _, _, _, _)
FetchPage(net, q, limit, page, tries, out, r) ==
  IF r.exc # "none" THEN FetchRaised(r.exc, r.n, page)
  ELSE IF r.status >= 300 THEN Fetched(<<>>, r.n, page)
  ELSE IF Len(out \o PageOf(Matching(net, q), page)) >= limit
    THEN Fetched(SubSeq(out \o PageOf(Matching(net, q), page), 1, limit), r.n, page)
  ELSE IF ~NextLink(net, q, page) \/ tries > MaxTries
    THEN Fetched(out \o PageOf(Matching(net, q), page), r.n, page)
  ELSE FetchLoop(net, q, limit, page + 1, tries + 1, out \o PageOf(Matching(net, q), page), r.n)
AddRequests(r, n) == [r EXCEPT !.n = @ + n]
FetchLoop(net, q, limit, page, tries, out, n) ==
  FetchPage(net, q, limit, page, tries, out, AddRequests(http_get_json(net, q, 2, 0), n))

\* a fetch whose first round is not counted
azure_retail_prices_fetch_FirstUncounted(net, q, limit) == FetchLoop(net, q, limit, 1, 0, <<>>, 0)

azure_retail_prices_fetch(net, q, limit) == FetchLoop(net, q, limit, 1, 1, <<>>, 0)

\* monthly_from_retail: cents a month for a row of the catalog
monthly_from_retail(item) ==
  IF PyContains(PyLower(item.unitOfMeasure), "hour")
    THEN RoundHalfEven(item.retailPrice * HOURS_PER_MONTH, 100)
    ELSE RoundHalfEven(item.retailPrice, 100)

(***************************************************************************)
(* The price resolvers.  A resolver call gives the exception raised or the *)
(* price returned (val), the number n of requests it sent to the catalog   *)
(* and the cache it leaves.                                                *)
(***************************************************************************)
IsHourly(x) == PyContains(PyLower(x.unitOfMeasure), "hour")
\* hourly = [x for x in items if "hour" in ...]
Hourly(items) == SelectSeq(items, IsHourly)

\* if best is None or (m and m < best): best = m
Better(best, m) == IF ~best.some \/ (m # 0 /\ m < best.v) THEN Some(m) ELSE best

\* for it in pool: ..., from the i-th item on
RECURSIVE BestFrom(_, _, _)
BestFrom(pool, i, best) ==
  IF i > Len(pool) THEN best
  ELSE BestFrom(pool, i + 1, Better(best, monthly_from_retail(pool[i])))

\* is_compute_meter of azure_price_for_sql
SqlBadWords == {"backup", "storage", "io", "data processed", "per gb", "gb-month"}
SqlGoodWords == {"dtu", "vcore", "compute"}
IsComputeMeter(it, sku) ==
  /\ \A b \in SqlBadWords : ~PyContains(PyLower(it.meterName), b)
  /\ \/ \E g \in SqlGoodWords : PyContains(PyLower(it.meterName), g)
     \/ PyContains(PyLower(it.meterName), PyLower(sku))

\* pool = hourly or items
HourlyOr(hourly, items) == IF Len(hourly) > 0 THEN hourly ELSE items
\* the pool of a resolver: "hourly" (VM, App Service), "sql" (hourly, then the
\* compute meters), "all" (storage)
PoolFor(kind, sku, items) ==
  IF kind = "all" THEN items
  ELSE IF kind = "sql" /\ DEFAULT_SQL_COMPUTE_ONLY
    THEN SelectSeq(HourlyOr(Hourly(items), items), LAMBDA x : IsComputeMeter(x, sku))
  ELSE HourlyOr(Hourly(items), items)

\* items = fetch(flt) or []; if not items: items = fetch(alt) or [] ...: the
\* first of the filters qs, from the j-th on, that yields items
RECURSIVE FetchFirst(_, _, _, _, _)
FetchNext(net, qs, j, limit, f) ==
  IF f.exc # "none" \/ Len(f.items) > 0 THEN f ELSE FetchFirst(net, qs, j + 1, limit, f.n)
FetchFirst(net, qs, j, limit, n) ==
  IF j > Len(qs) THEN Fetched(<<>>, n, 0)
  ELSE FetchNext(net, qs, j, limit, AddRequests(azure_retail_prices_fetch(net, qs[j], limit), n))

Best(exc, best, n) == [exc |-> exc, best |-> best, n |-> n]

\* one round of a resolver's loop: f is what the round fetched
BestStep(kind, sku, acc, f) ==
  IF f.exc # "none" THEN Best(f.exc, acc.best, f.n)
  ELSE Best("none", BestFrom(PoolFor(kind, sku, f.items), 1, acc.best), f.n)

\* the loop of a resolver over its rounds, steps[i] being the filters of round i
RECURSIVE BestLoop(_, _, _, _, _, _, _)
BestLoop(net, steps, i, limit, kind, sku, acc) ==
  IF i > Len(steps) \/ acc.exc # "none" THEN acc
  ELSE BestLoop(net, steps, i + 1, limit, kind, sku,
                BestStep(kind, sku, acc, FetchFirst(net, steps[i], 1, limit, acc.n)))

Resolved(exc, val, n, cache) == [exc |-> exc, val |-> val, n |-> n, cache |-> cache]

\* an end that returns 0 for a price that was not found, and stores it
Finish_ZeroForAbsent(cache, key, now, acc) ==
  IF acc.exc # "none" THEN Resolved(acc.exc, None, acc.n, cache)
  ELSE IF acc.best.some
    THEN Resolved("none", acc.best, acc.n, cache_put(cache, key, acc.best.v, now, TTL))
  ELSE Resolved("none", Some(0), acc.n, cache_put(cache, key, 0, now, TTL))

\* if best_price is not None: cache_put(key, best_price); return best_price
Finish(cache, key, now, acc) ==
  IF acc.exc # "none" THEN Resolved(acc.exc, None, acc.n, cache)
  ELSE IF acc.best.some
    THEN Resolved("none", acc.best, acc.n, cache_put(cache, key, acc.best.v, now, TTL))
  ELSE Resolved("none", None, acc.n, cache)

\* c = cache_get(key); if c is not None: return c; else the loop
ResolveBest(cache, key, now, net, steps, limit, kind, sku) ==
  IF cache_get(cache, key, now).some
    THEN Resolved("none", cache_get(cache, key, now), 0, cache)
  ELSE Finish(cache, key, now, BestLoop(net, steps, 1, limit, kind, sku, Best("none", None, 0)))

AppServiceCandidates ==
  <<"App Service", "App Service Linux", "Azure App Service", "App Service Plans",
    "Azure App Service Plans">>

\* the rounds of azure_price_for_app_service_sku: for reg, for svc: flt, alt
AppServiceSteps(sku, regs) ==
  [k \in 1..(Len(regs) * Len(AppServiceCandidates)) |->
     <<Flt(AppServiceCandidates[((k - 1) % Len(AppServiceCandidates)) + 1], "", sku, "", "",
           regs[((k - 1) \div Len(AppServiceCandidates)) + 1]),
       Flt("", "App Service", sku, "", "",
           regs[((k - 1) \div Len(AppServiceCandidates)) + 1])>>]

azure_price_for_app_service_sku(cache, now, net, seed, sku, region) ==
  ResolveBest(cache, "az.appservice." \o region \o "." \o sku, now, net,
              AppServiceSteps(sku, region_variants(region, seed)), 60, "hourly", sku)

\* candidates = [size, size.replace("_", " "), size.replace("v", " v")]
VmCandidates(size) == <<size, PyReplace(size, "_", " "), PyReplace(size, "v", " v")>>

\* the rounds of azure_price_for_vm_size: for reg, for sku in candidates
VmSteps(cands, regs) ==
  [k \in 1..(Len(regs) * Len(cands)) |->
     <<Flt("Virtual Machines", "", cands[((k - 1) % Len(cands)) + 1], "", "",
           regs[((k - 1) \div Len(cands)) + 1])>>]

azure_price_for_vm_size(cache, now, net, seed, size, region) ==
  ResolveBest(cache, "az.vm." \o region \o "." \o size, now, net,
              VmSteps(VmCandidates(size), region_variants(region, seed)), 80, "hourly", size)

\* the rounds of azure_price_for_sql: for reg: flt1, flt2, flt3
SqlSteps(sku, regs) ==
  [k \in 1..Len(regs) |->
     <<Flt("SQL Database", "", sku, "", "", regs[k]),
       Flt("", "SQL Database", sku, "", "", regs[k]),
       Flt("SQL Database", "", "", "", sku, regs[k])>>]

azure_price_for_sql(cache, now, net, seed, sku, region) ==
  ResolveBest(cache, "az.sql." \o region \o "." \o sku, now, net,
              SqlSteps(sku, region_variants(region, seed)), 200, "sql", sku)

StorageSteps(regs) == [k \in 1..Len(regs) |-> <<Flt("Storage", "", "", "LRS", "", regs[k])>>]

azure_price_for_storage_lrs_per_gb(cache, now, net, seed, region) ==
  ResolveBest(cache, "az.storage.lrs." \o region, now, net,
              StorageSteps(region_variants(region, seed)), 80, "all", "")

\* the meters of the component resolvers
IsRuleMeter(it) == PyContains(PyLower(it.meterName), "rule") /\ IsHourly(it)
IsDataMeter(it) ==
  /\ \/ PyContains(PyLower(it.meterName), "data")
     \/ PyContains(PyLower(it.meterName), "processed")
     \/ PyContains(PyLower(it.meterName), "data path")
  /\ PyContains(PyLower(it.unitOfMeasure), "gb")
IsBase(it) ==
  /\ ~PyContains(PyLower(it.unitOfMeasure), "gb")
  /\ \/ PyContains(PyLower(it.meterName), "gateway")
     \/ PyContains(PyLower(it.meterName), "waf v2")
     \/ PyContains(PyLower(it.meterName), "app gateway")
  /\ ~PyContains(PyLower(it.meterName), "capacity")
IsCu(it) == PyContains(PyLower(it.meterName), "capacity unit") /\ IsHourly(it)

\* the two best prices of a component resolver ("lb" or "appgw")
Comps(exc, a, b, n) == [exc |-> exc, a |-> a, b |-> b, n |-> n]

\* the two loops over the items of one fetch
CompsUpdate(kind, acc, f) ==
  IF f.exc # "none" THEN Comps(f.exc, acc.a, acc.b, f.n)
  ELSE IF kind = "lb"
    THEN Comps("none", BestFrom(SelectSeq(Hourly(f.items), IsRuleMeter), 1, acc.a),
               BestFrom(SelectSeq(f.items, IsDataMeter), 1, acc.b), f.n)
  ELSE Comps("none", BestFrom(SelectSeq(Hourly(f.items), IsBase), 1, acc.a),
             BestFrom(SelectSeq(Hourly(f.items), LAMBDA x : ~IsBase(x) /\ IsCu(x)), 1, acc.b), f.n)

\* if one of the two is still None: the same with the alt filter
CompsAlt(net, kind, alt, acc) ==
  IF acc.exc # "none" \/ (acc.a.some /\ acc.b.some) THEN acc
  ELSE CompsUpdate(kind, acc, AddRequests(azure_retail_prices_fetch(net, alt, 200), acc.n))

CompsService(kind) == IF kind = "lb" THEN "Load Balancer" ELSE "Application Gateway"

\* for reg in region_variants(region), from the i-th variant on
RECURSIVE CompsLoop(_, _, _, _, _)
CompsLoop(net, kind, regs, i, acc) ==
  IF i > Len(regs) \/ acc.exc # "none" THEN acc
  ELSE CompsLoop(net, kind, regs, i + 1,
         CompsAlt(net, kind, Flt("", CompsService(kind), "", "", "", regs[i]),
           CompsUpdate(kind, acc,
             AddRequests(azure_retail_prices_fetch(
               net, Flt(CompsService(kind), "", "", "", "", regs[i]), 200), acc.n))))

OrZero(opt) == IF opt.some THEN opt.v ELSE 0

\* the end of a component resolver: None when neither price was found
CompsFinish(cache, key, now, acc) ==
  IF acc.exc # "none" THEN Resolved(acc.exc, None, acc.n, cache)
  ELSE IF ~acc.a.some /\ ~acc.b.some THEN Resolved("none", None, acc.n, cache)
  ELSE Resolved("none", Some([a |-> OrZero(acc.a), b |-> OrZero(acc.b)]), acc.n,
                cache_put(cache, key, [a |-> OrZero(acc.a), b |-> OrZero(acc.b)], now, TTL))

ResolveComps(cache, key, now, net, kind, regs) ==
  IF cache_get(cache, key, now).some
    THEN Resolved("none", cache_get(cache, key, now), 0, cache)
  ELSE CompsFinish(cache, key, now, CompsLoop(net, kind, regs, 1, Comps("none", None, None, 0)))

\* a: rule_hour_monthly, b: data_gb_monthly
azure_price_for_lb_components(cache, now, net, seed, region) ==
  ResolveComps(cache, "az.lb.standard.components." \o region, now, net, "lb",
               region_variants(region, seed))

\* a: base_monthly, b: capacity_unit_monthly
azure_price_for_appgw_wafv2_components(cache, now, net, seed, region) ==
  ResolveComps(cache, "az.appgw.wafv2.components." \o region, now, net, "appgw",
               region_variants(region, seed))

(***************************************************************************)
(* price_items.  An input record holds 0 or "" for a key it lacks; its     *)
(* size_gb is a float, size_gb whole GB and size_dec tenths of a GB.  A    *)
(* unit price is kept in 1/10 cent, a monthly figure in cents, the running *)
(* total in 1/10000 dollar.                                                *)
(***************************************************************************)
Item(cloud, service, sku, qty, hours) ==
  [cloud |-> cloud, service |-> service, sku |-> sku, qty |-> qty, region |-> "",
   size_gb |-> 0, size_dec |-> 0, hours |-> hours, rules |-> 0, data_gb |-> 0,
   capacity_units |-> 0]

\* size_gb in tenths of a GB
SizeTenths(it) == 10 * it.size_gb + it.size_dec

\* the local variables price_items reads from a record
Fields(it) ==
  [it EXCEPT !.cloud = PyLower(it.cloud),
             !.service = PyLower(it.service),
             !.qty = IF it.qty = 0 THEN 1 ELSE it.qty,
             !.region = IF it.region = "" THEN DEFAULT_REGION ELSE it.region,
             !.hours = IF it.hours = 0 THEN HOURS_PER_MONTH ELSE it.hours]

Note(kind, it) == [kind |-> kind, service |-> it.service, sku |-> it.sku]

\* the outcome of the try block for one record: the exception raised or the
\* unit price, the notes appended, the requests sent and the cache left
Looked(exc, unit, notes, n, cache) ==
  [exc |-> exc, unit |-> unit, notes |-> notes, n |-> n, cache |-> cache]

\* unit_monthly = azure_price_for_...(sku, region)
FromPrice(r) ==
  Looked(r.exc, IF r.val.some THEN Some(10 * r.val.v) ELSE None, <<>>, r.n, r.cache)

\* per_gb * (size_gb if size_gb > 0 else 100.0)
FromStorage(it, r) ==
  Looked(r.exc,
         IF r.val.some THEN Some(r.val.v * (IF SizeTenths(it) > 0 THEN SizeTenths(it) ELSE 1000))
         ELSE None,
         <<>>, r.n, r.cache)

LbRules(it) == IF it.rules # 0 THEN it.rules ELSE DEFAULT_LB_RULES
LbDataGb(it) == IF it.data_gb # 0 THEN it.data_gb ELSE DEFAULT_LB_DATA_GB
FromLb(it, r) ==
  IF ~r.val.some THEN Looked(r.exc, None, <<>>, r.n, r.cache)
  ELSE Looked(r.exc, Some(10 * (LbRules(it) * r.val.v.a + LbDataGb(it) * r.val.v.b)),
              (IF it.rules = 0 THEN <<Note("lb_rules_defaulted", it)>> ELSE <<>>)
                \o (IF it.data_gb = 0 THEN <<Note("lb_data_defaulted", it)>> ELSE <<>>),
              r.n, r.cache)

\* int(it.get("capacity_units") or it.get("size_gb") or DEFAULT_APPGW_CAPACITY_UNITS)
CapacityUnits(it) ==
  IF it.capacity_units # 0 THEN it.capacity_units
  ELSE IF SizeTenths(it) # 0 THEN it.size_gb ELSE DEFAULT_APPGW_CAPACITY_UNITS
FromAppGw(it, r) ==
  IF ~r.val.some THEN Looked(r.exc, None, <<>>, r.n, r.cache)
  ELSE Looked(r.exc, Some(10 * (r.val.v.a + CapacityUnits(it) * r.val.v.b)),
              IF it.capacity_units = 0 /\ SizeTenths(it) = 0
                THEN <<Note("appgw_units_defaulted", it)>> ELSE <<>>,
              r.n, r.cache)

\* the body of the try block, it being Fields of the record
LiveLookup(it, cache, now, net, seed) ==
  IF it.service = "app_service"
    THEN FromPrice(azure_price_for_app_service_sku(cache, now, net, seed, it.sku, it.region))
  ELSE IF it.service = "vm"
    THEN FromPrice(azure_price_for_vm_size(cache, now, net, seed, it.sku, it.region))
  ELSE IF it.service = "azure_sql"
    THEN FromPrice(azure_price_for_sql(cache, now, net, seed, it.sku, it.region))
  ELSE IF it.service = "storage"
    THEN FromStorage(it, azure_price_for_storage_lrs_per_gb(cache, now, net, seed, it.region))
  ELSE IF it.service = "lb"
    THEN FromLb(it, azure_price_for_lb_components(cache, now, net, seed, it.region))
  ELSE IF it.service = "app_gateway"
    THEN FromAppGw(it, azure_price_for_appgw_wafv2_components(cache, now, net, seed, it.region))
  ELSE IF it.service \in {"redis", "monitor"} THEN Looked("none", Some(0), <<>>, 0, cache)
  ELSE IF it.service = "aks" THEN Looked("none", Some(0), <<Note("aks_free", it)>>, 0, cache)
  ELSE Looked("none", None, <<>>, 0, cache)

\* a lookup that goes to the catalog whatever the cloud and the setting
Lookup_AlwaysLive(it, cache, now, net, seed) == LiveLookup(it, cache, now, net, seed)

\* if cloud == "azure" and USE_LIVE_AZURE_PRICES: the try block; else
\* unit_monthly stays None
Lookup(it, cache, now, net, seed) ==
  IF it.cloud = "azure" /\ USE_LIVE_AZURE_PRICES THEN LiveLookup(it, cache, now, net, seed)
  ELSE Looked("none", None, <<>>, 0, cache)

\* a try statement without its except clause
LookupCatches_Nothing(exc) == FALSE

\* except Exception as e, around the lookup of one record
LookupCatches(exc) == IsException(exc)

\* the except clause: the note of the failure, and no price
AfterLookup(it, l) ==
  IF l.exc # "none" /\ LookupCatches(l.exc)
    THEN Looked("none", None, l.notes \o <<Note("lookup_failed", it)>>, l.n, l.cache)
  ELSE l

\* if unit_monthly is None: the note, and the price 0
OrNoPrice(it, l) ==
  IF l.exc = "none" /\ ~l.unit.some
    THEN Looked("none", Some(0), l.notes \o <<Note("no_price", it)>>, l.n, l.cache)
  ELSE l

\* monthly before it is rounded, as a fraction num / den of cents, unit being
\* the unit price in 1/10 cent:
\* unit * (hours / HOURS_PER_MONTH) * qty, the hours counting only for a
\* price above 0 and hours other than HOURS_PER_MONTH
RawNum(it, unit) ==
  IF it.hours # HOURS_PER_MONTH /\ unit > 0 THEN unit * it.hours * it.qty ELSE unit * it.qty
RawDen(it, unit) ==
  IF it.hours # HOURS_PER_MONTH /\ unit > 0 THEN 10 * HOURS_PER_MONTH ELSE 10

\* monthly = round(monthly * qty, 2), in cents
Monthly(it, unit) == RoundHalfEven(RawNum(it, unit), RawDen(it, unit))

OutLine(it, unit) ==
  [cloud |-> it.cloud, service |-> it.service, sku |-> it.sku, qty |-> it.qty,
   region |-> it.region, size_gb |-> it.size_gb, size_dec |-> it.size_dec,
   hours |-> IF it.hours # HOURS_PER_MONTH THEN it.hours ELSE 0,
   unit_monthly |-> RoundHalfEven(unit, 10), monthly |-> Monthly(it, unit),
   capacity_units |-> IF it.service = "app_gateway" THEN CapacityUnits(it) ELSE 0,
   rules |-> IF it.service = "lb" THEN LbRules(it) ELSE 0,
   data_gb |-> IF it.service = "lb" THEN LbDataGb(it) ELSE 0]

\* a total that gathers the amounts before they are rounded
AddToTotal_Unrounded(total, it, unit) ==
  total + RoundHalfEven(100 * RawNum(it, unit), RawDen(it, unit))

\* total += monthly
AddToTotal(total, it, unit) == total + 100 * Monthly(it, unit)

\* the local state of price_items: exc is the exception that ended the call
Pricing(exc, cache, notes, total, out, n) ==
  [exc |-> exc, cache |-> cache, notes |-> notes, total |-> total, out |-> out, n |-> n]

\* one pass of "for it in items", l being the lookup with its two notes
PriceStep(st, it, l) ==
  IF l.exc # "none" THEN Pricing(l.exc, l.cache, st.notes \o l.notes, st.total, st.out, st.n + l.n)
  ELSE Pricing("none", l.cache, st.notes \o l.notes, AddToTotal(st.total, it, l.unit.v),
               Append(st.out, OutLine(it, l.unit.v)), st.n + l.n)

PriceOne(st, it, now, net, seed) ==
  PriceStep(st, it, OrNoPrice(it, AfterLookup(it, Lookup(it, st.cache, now, net, seed))))

RECURSIVE PriceLoop(_, _, _, _, _, _)
PriceLoop(items, i, st, now, net, seed) ==
  IF i > Len(items) \/ st.exc # "none" THEN st
  ELSE PriceLoop(items, i + 1, PriceOne(st, Fields(items[i]), now, net, seed), now, net, seed)

\* what price_items hands back: the exception, or the dict it returns; notes
\* is the local list at that moment, cache the cache it leaves and n the
\* number of requests it sent
Priced(st) ==
  [exc |-> st.exc,
   ret |-> [currency |-> "USD", total_estimate |-> RoundHalfEven(st.total, 100), items |-> st.out],
   notes |-> st.notes, cache |-> st.cache, n |-> st.n]

price_items(items, cache, now, net, seed) ==
  Priced(PriceLoop(items, 1, Pricing("none", cache, <<>>, 0, <<>>, 0), now, net, seed))

(***************************************************************************)
(* aoai_chat.  The text-generation service is configured or not, answers   *)
(* in one of the modes of Net, and a successful answer carries a body.     *)
(***************************************************************************)
Aoai(configured, mode, body) == [configured |-> configured, mode |-> mode, body |-> body]
\* a body with choices[0].message.content, and a JSON body without "choices"
Completion(content) == [kind |-> "completion", content |-> content]
NoChoices == [kind |-> "no_choices", content |-> ""]

\* what attempt number attempt (from 0) of the POST meets
PostOutcome(mode, attempt) ==
  IF mode = "flaky" THEN (IF attempt = 0 THEN "transport" ELSE "ok")
  ELSE IF mode = "hiccup" THEN (IF attempt = 0 THEN "busy" ELSE "ok")
  ELSE mode

\* http_post_json from attempt number attempt on
RECURSIVE http_post_json(_, _, _)
http_post_json(mode, max_retries, attempt) ==
  IF PostOutcome(mode, attempt) = "transport"
    THEN IF attempt < max_retries THEN http_post_json(mode, max_retries, attempt + 1)
         ELSE [exc |-> "RequestException", status |-> 0, n |-> attempt + 1]
  ELSE IF StatusOf(PostOutcome(mode, attempt)) < 300
    THEN [exc |-> "none", status |-> StatusOf(PostOutcome(mode, attempt)), n |-> attempt + 1]
  ELSE IF StatusOf(PostOutcome(mode, attempt)) \in RetryStatuses /\ attempt < max_retries
    THEN http_post_json(mode, max_retries, attempt + 1)
  ELSE [exc |-> "none", status |-> StatusOf(PostOutcome(mode, attempt)), n |-> attempt + 1]

\* a call of aoai_chat: the exception raised with its status code, or the
\* body returned; n is the number of requests sent
ChatRaised(exc, status, n) == [exc |-> exc, status |-> status, body |-> NoChoices, n |-> n]
ChatReturned(body, n) == [exc |-> "none", status |-> 200, body |-> body, n |-> n]

\* if resp.status_code >= 300: raise HTTPException(resp.status_code)
AfterPost(ai, r) ==
  IF r.exc # "none" THEN ChatRaised(r.exc, 500, r.n)
  ELSE IF r.status >= 300 THEN ChatRaised("HTTPException", r.status, r.n)
  ELSE ChatReturned(ai.body, r.n)

aoai_chat(ai) ==
  IF ~ai.configured THEN ChatRaised("HTTPException", 500, 0)
  ELSE AfterPost(ai, http_post_json(ai.mode, 3, 0))

(***************************************************************************)
(* normalize_to_items                                                      *)
(***************************************************************************)
\* int(str) for a run of digits
RECURSIVE IntOf(_)
IntOf(str) ==
  IF str = "" THEN 0
  ELSE 10 * IntOf(SubSeq(str, 1, Len(str) - 1)) + DigitVal(Ch(str, Len(str)))

Word(str) == <<WordB, Lit(str), WordB>>
\* \bapp service\b|\bweb app\b
AppServiceRe == <<Word("app service"), Word("web app")>>
\* \bfront.*back|backend.*front
FrontBackRe ==
  <<<<WordB, Lit("front"), Star(ReDot), Lit("back")>>,
    <<Lit("backend"), Star(ReDot), Lit("front")>>>>
\* \b(mssql|azure sql|sql database)\b
SqlRe == <<<<WordB, Alt(<<"mssql", "azure sql", "sql database">>), WordB>>>>
\* (\d+)\s*gb
GbRe == <<<<GS(1), Plus(ReDigit), GE(1), Star(ReWS), Lit("gb")>>>>
\* \bvmss\b|\bvm scale set\b|\bvirtual machine\b|\bvm\b
VmRe == <<Word("vmss"), Word("vm scale set"), Word("virtual machine"), Word("vm")>>
\* \bstorage account\b|\bblob storage\b|\bazurerm_storage
StorageRe ==
  <<Word("storage account"), Word("blob storage"), <<WordB, Lit("azurerm_storage")>>>>
\* \bapplication gateway\b|\bapp gateway\b|\bapp gw\b
AppGwRe == <<Word("application gateway"), Word("app gateway"), Word("app gw")>>
\* (\d+)\s*(?:capacity\s*units|cu)\b
CuRe ==
  <<<<GS(1), Plus(ReDigit), GE(1), Star(ReWS), Lit("capacity"), Star(ReWS), Lit("units"), WordB>>,
    <<GS(1), Plus(ReDigit), GE(1), Star(ReWS), Lit("cu"), WordB>>>>
\* \bload balancer\b|\blb\b
LbRe == <<Word("load balancer"), Word("lb")>>
\* (\d+)\s*(?:rules|lb\s*rules)
RulesRe ==
  <<<<GS(1), Plus(ReDigit), GE(1), Star(ReWS), Lit("rules")>>,
    <<GS(1), Plus(ReDigit), GE(1), Star(ReWS), Lit("lb"), Star(ReWS), Lit("rules")>>>>
\* (\d+)\s*gb\s*(?:data|processed)
DataRe ==
  <<<<GS(1), Plus(ReDigit), GE(1), Star(ReWS), Lit("gb"), Star(ReWS),
      Alt(<<"data", "processed">>)>>>>

Found(res, blob) == ReSearchFrom(res, blob, 1)

\* len(re.findall(res, blob)) from position i on, m being the next match
RECURSIVE CountFrom(_, _, _)
CountNext(res, blob, m) == IF m.ok THEN 1 + CountFrom(res, blob, m.end) ELSE 0
CountFrom(res, blob, i) == CountNext(res, blob, ReSearchFrom(res, blob, i))

\* add(cloud, service, sku, qty): qty is max(1, int(qty))
Add(service, sku, qty, region) ==
  [Item("azure", service, sku, IF qty < 1 THEN 1 ELSE qty, 0) EXCEPT !.region = region]

\* if m: items[-1][field] = the number of group 1
WithGroup(it, field, blob, m) ==
  IF m.ok THEN [it EXCEPT ![field] = IntOf(Group(blob, m, 1))] ELSE it

NormAppService(blob, region) ==
  IF Found(AppServiceRe, blob).ok
    THEN <<Add("app_service", "S1", IF Found(FrontBackRe, blob).ok THEN 2 ELSE 1, region)>>
    ELSE <<>>

NormSql(blob, region) ==
  IF Found(SqlRe, blob).ok
    THEN <<WithGroup(Add("azure_sql", "S0", 1, region), "size_gb", blob, Found(GbRe, blob))>>
    ELSE <<>>

NormVm(region, vm_hits) == IF vm_hits # 0 THEN <<Add("vm", "B2s", vm_hits, region)>> ELSE <<>>

NormStorage(blob, region) ==
  IF Found(StorageRe, blob).ok
    THEN <<[Add("storage", "LRS", 1, region) EXCEPT !.size_gb = 100]>>
    ELSE <<>>

NormGateway(blob, region) ==
  IF Found(AppGwRe, blob).ok
    THEN <<WithGroup(Add("app_gateway", "WAF_v2", 1, region), "capacity_units", blob,
                     Found(CuRe, blob))>>
  ELSE IF Found(LbRe, blob).ok
    THEN <<WithGroup(WithGroup(Add("lb", "Standard", 1, region), "rules", blob,
                               Found(RulesRe, blob)),
                     "data_gb", blob, Found(DataRe, blob))>>
  ELSE <<>>

NormAks(blob, region) ==
  IF PyContains(blob, "aks") \/ PyContains(blob, "kubernetes service")
    THEN <<Add("aks", "standard", 1, region)>>
    ELSE <<>>

\* the items for blob, the text of ask, diagram and tf in lower case
NormBlob(blob, region) ==
  NormAppService(blob, region) \o NormSql(blob, region)
    \o NormVm(region, CountFrom(VmRe, blob, 1)) \o NormStorage(blob, region)
    \o NormGateway(blob, region) \o NormAks(blob, region)

normalize_to_items(ask, diagram, tf, region) ==
  NormBlob(PyLower(ask \o "\n" \o diagram \o "\n" \o tf),
           IF region = "" THEN DEFAULT_REGION ELSE region)

(***************************************************************************)
(* azure_mcp, the handler of POST /mcp/azure/diagram-tf                     *)
(***************************************************************************)
\* the request body: has_app_name tells whether it holds "app_name"; a
\* prompt or region of "" stands for an absent one as well
Payload(has_app_name, app_name, prompt, region) ==
  [has_app_name |-> has_app_name, app_name |-> app_name, prompt |-> prompt, region |-> region]

\* payload.get("app_name", "3-tier web app")
AppName(payload) == IF payload.has_app_name THEN payload.app_name ELSE "3-tier web app"
\* extra or app_name
Ask(payload) == IF payload.prompt # "" THEN payload.prompt ELSE AppName(payload)

FALLBACK_DIAGRAM ==
  "flowchart TD\n"
    \o "  A[Internet] -->|HTTPS| B[Azure Front Door];\n"
    \o "  B -->|HTTPS| C[Azure Application Gateway];\n"
    \o "  C -->|WAF| H[Web Application Firewall];\n"
    \o "  C -->|HTTPS| D[Web Tier - Azure App Service];\n"
    \o "  D -->|HTTPS| E[Application Tier - Azure App Service];\n"
    \o "  E -->|TCP 1433| F[Azure SQL Database];\n"
FALLBACK_TF == "# Terraform generation failed-open; check backend logs"

\* the outcome of the try block: the exception raised with its status code,
\* or diagram and tf; n is the number of requests sent to the service
Generated(diagram, tf, n) ==
  [exc |-> "none", status |-> 200, diagram |-> diagram, tf |-> tf, n |-> n]
GenRaised(exc, status, n) ==
  [exc |-> exc, status |-> status, diagram |-> "", tf |-> "", n |-> n]

\* a handler that takes every pair of fields
MissingField_Never(diagram_raw, tf_raw) == FALSE

\* if not diagram_raw or not tf_raw
MissingField(diagram_raw, tf_raw) == diagram_raw = "" \/ tf_raw = ""

\* from diagram_raw and tf_raw on
FromRaw(diagram_raw, tf_raw, n) ==
  IF MissingField(diagram_raw, tf_raw) THEN GenRaised("ValueError", 500, n)
  ELSE Generated(sanitize_mermaid(diagram_raw), strip_fences(JStr(tf_raw)).val, n)

\* from parsed = extract_json_or_fences(content) on
FromParsed(parsed, n) ==
  IF parsed.exc # "none" THEN GenRaised(parsed.exc, 500, n)
  ELSE FromRaw(PyStrip(parsed.diagram), PyStrip(parsed.terraform), n)

\* from result = aoai_chat(...) on; result["choices"] raises KeyError on a
\* body without choices
FromChat(chat) ==
  IF chat.exc # "none" THEN GenRaised(chat.exc, chat.status, chat.n)
  ELSE IF chat.body.kind # "completion" THEN GenRaised("KeyError", 500, chat.n)
  ELSE FromParsed(extract_json_or_fences(chat.body.content), chat.n)

\* an except clause for the errors of the HTTP layer only
HandlerCatches_HttpOnly(exc) == exc = "HTTPException"

\* except Exception as e
HandlerCatches(exc) == IsException(exc)

\* the except clause: if not FAIL_OPEN: raise, else the fallback
AfterGenerate(fail_open, g) ==
  IF g.exc = "none" \/ ~HandlerCatches(g.exc) \/ ~fail_open THEN g
  ELSE Generated(sanitize_mermaid(FALLBACK_DIAGRAM), FALLBACK_TF, g.n)

\* what the handler returns or raises; cache is the price cache it leaves
Responded(g, cost) ==
  [exc |-> cost.exc, status |-> IF cost.exc = "none" THEN 200 ELSE 500,
   diagram |-> g.diagram, terraform |-> g.tf, cost |-> cost.ret, cache |-> cost.cache]
NoCost == [currency |-> "USD", total_estimate |-> 0, items |-> <<>>]
HandlerRaised(g, cache) ==
  [exc |-> g.exc, status |-> g.status, diagram |-> "", terraform |-> "",
   cost |-> NoCost, cache |-> cache]

\* items = normalize_to_items(...); cost = price_items(items)
WithCost(payload, g, cache, now, net, seed) ==
  IF g.exc # "none" THEN HandlerRaised(g, cache)
  ELSE Responded(g, price_items(normalize_to_items(Ask(payload), g.diagram, g.tf, payload.region),
                                cache, now, net, seed))

azure_mcp(payload, fail_open, ai, cache, now, net, seed) ==
  WithCost(payload, AfterGenerate(fail_open, FromChat(aoai_chat(ai))), cache, now, net, seed)

(***************************************************************************)
(* infer_component_type: the type and the provider of a diagram label      *)
(***************************************************************************)
\* any(x in n for x in words)
AnyIn(n, words) == \E x \in words : PyContains(n, x)

VmWords == {"ec2", "vm", "instance", "compute engine"}
DatabaseWords == {"rds", "database", "db", "sql", "cosmos", "cloud sql"}
LoadBalancerWords == {"load balancer", "lb", "alb", "nlb", "elb", "application gateway"}
StorageWords == {"s3", "bucket", "storage", "blob", "gcs"}
APIGatewayWords == {"api gateway", "apigateway", "gateway"}
FunctionWords == {"lambda", "function", "cloud function", "azure function", "serverless"}
NetworkWords == {"vpc", "network", "subnet", "vnet"}
KubernetesWords == {"kubernetes", "eks", "aks", "gke", "cluster"}

AwsWords == {"ec2", "rds", "s3", "alb", "nlb", "elb", "lambda", "vpc", "eks", "aws"}
AzureWords ==
  {"azure", "vm", "vnet", "blob", "cosmos", "app service", "application gateway", "aks"}
GcpWords == {"gcp", "gcs", "compute engine", "cloud sql", "gke"}

\* a chain that tests the rows from the last to the first
ComponentType_LastMatch(n) ==
  IF AnyIn(n, KubernetesWords) THEN "Kubernetes"
  ELSE IF AnyIn(n, NetworkWords) THEN "Network"
  ELSE IF AnyIn(n, FunctionWords) THEN "Function"
  ELSE IF AnyIn(n, APIGatewayWords) THEN "APIGateway"
  ELSE IF AnyIn(n, StorageWords) THEN "Storage"
  ELSE IF AnyIn(n, LoadBalancerWords) THEN "LoadBalancer"
  ELSE IF AnyIn(n, DatabaseWords) THEN "Database"
  ELSE IF AnyIn(n, VmWords) THEN "VM"
  ELSE "Other"

\* the if/elif chain that sets ctype
ComponentType(n) ==
  IF AnyIn(n, VmWords) THEN "VM"
  ELSE IF AnyIn(n, DatabaseWords) THEN "Database"
  ELSE IF AnyIn(n, LoadBalancerWords) THEN "LoadBalancer"
  ELSE IF AnyIn(n, StorageWords) THEN "Storage"
  ELSE IF AnyIn(n, APIGatewayWords) THEN "APIGateway"
  ELSE IF AnyIn(n, FunctionWords) THEN "Function"
  ELSE IF AnyIn(n, NetworkWords) THEN "Network"
  ELSE IF AnyIn(n, KubernetesWords) THEN "Kubernetes"
  ELSE "Other"

\* the if/elif chain that sets provider
Provider(n) ==
  IF AnyIn(n, AwsWords) THEN "AWS"
  ELSE IF AnyIn(n, AzureWords) THEN "Azure"
  ELSE IF AnyIn(n, GcpWords) THEN "GCP"
  ELSE "Generic"

Inferred(ctype, provider) == [ctype |-> ctype, provider |-> provider]

infer_component_type(name) ==
  Inferred(ComponentType(PyLower(name)), Provider(PyLower(name)))

(***************************************************************************)
(* app.py: the record store.  A table is the sequence of its rows in the   *)
(* order of their insertion; the id of a diagram is its place in the       *)
(* table.  tx is the request whose open transaction wrote the row, 0 once  *)
(* the row is committed.                                                   *)
(***************************************************************************)
\* a row of chat_messages
ChatMessage(session_id, message_type, message_order, req, tx) ==
  [session_id |-> session_id, message_type |-> message_type,
   message_order |-> message_order, req |-> req, tx |-> tx]

\* a row of architecture_diagrams
ArchitectureDiagram(session_id, mermaid_code, version, is_current) ==
  [session_id |-> session_id, mermaid_code |-> mermaid_code, version |-> version,
   is_current |-> is_current]

\* a row of diagram_components
DiagramComponent(diagram_id, component_name, inferred) ==
  [diagram_id |-> diagram_id, component_name |-> component_name,
   component_type |-> inferred.ctype, cloud_provider |-> inferred.provider]

\* the rows a request sees: the committed ones and those of its transaction
Visible(rows, req) == SelectSeq(rows, LAMBDA row : row.tx \in {0, req})

\* ChatMessage.query.filter_by(session_id=session_id).count()
MessageCount(messages, session_id, req) ==
  Len(SelectSeq(Visible(messages, req), LAMBDA row : row.session_id = session_id))

\* db.session.commit() and db.session.rollback() of the request
Commit(rows, req) ==
  [i \in 1..Len(rows) |-> IF rows[i].tx = req THEN [rows[i] EXCEPT !.tx = 0] ELSE rows[i]]
Rollback(rows, req) == SelectSeq(rows, LAMBDA row : row.tx # req)

\* a flush that commits what it writes
Flush_Committed(messages, row) == Append(messages, [row EXCEPT !.tx = 0])

\* db.session.add(row); db.session.flush()
Flush(messages, row) == Append(messages, row)

\* [r'\[(.*?)\]', r'\(\((.*?)\)\)', r'\{\{(.*?)\}\}', r'\((.*?)\)']
node_patterns ==
  <<<<Lit("["), GS(1), LazyStar(ReDot), GE(1), Lit("]")>>,
    <<Lit("(("), GS(1), LazyStar(ReDot), GE(1), Lit("))")>>,
    <<Lit("{{"), GS(1), LazyStar(ReDot), GE(1), Lit("}}")>>,
    <<Lit("("), GS(1), LazyStar(ReDot), GE(1), Lit(")")>>>>

\* for match in re.finditer(pat, ln): label = match.group(1).strip();
\* if label: nodes.add(label) -- the labels of the matches from position i on
RECURSIVE FindLabels(_, _, _)
AddLabel(pat, ln, m) ==
  IF ~m.ok THEN {}
  ELSE (IF PyStrip(Group(ln, m, 1)) # "" THEN {PyStrip(Group(ln, m, 1))} ELSE {})
         \cup FindLabels(pat, ln, m.end)
FindLabels(pat, ln, i) == AddLabel(pat, ln, ReSearchFrom(<<pat>>, ln, i))

\* lines = [ln.strip() for ln in mermaid_code.splitlines() if ln.strip()]
StrippedLines(mermaid_code) ==
  SelectSeq([i \in 1..Len(PySplitLines(mermaid_code)) |-> PyStrip(PySplitLines(mermaid_code)[i])],
            LAMBDA ln : ln # "")

\* nodes, the patterns being pats
NodesBy(pats, lines) ==
  UNION {FindLabels(pats[p], lines[i], 1) : p \in 1..Len(pats), i \in 1..Len(lines)}

\* parse_and_save_components: the rows of diagram_components after the call
parse_and_save_components(components, diagram_id, mermaid_code) ==
  components \cup
    {DiagramComponent(diagram_id, name, infer_component_type(name)) :
       name \in NodesBy(node_patterns, StrippedLines(mermaid_code))}

\* db.session.query(db.func.max(ArchitectureDiagram.version)).filter_by(...).scalar()
MaxVersion(diagrams, session_id) ==
  IF \A i \in 1..Len(diagrams) : diagrams[i].session_id # session_id THEN 0
  ELSE CHOOSE v \in {diagrams[i].version : i \in 1..Len(diagrams)} :
         /\ \E i \in 1..Len(diagrams) : diagrams[i].session_id = session_id /\ diagrams[i].version = v
         /\ \A i \in 1..Len(diagrams) : diagrams[i].session_id = session_id => diagrams[i].version <= v

\* (max_version or 0) + 1
get_next_version(diagrams, session_id) == MaxVersion(diagrams, session_id) + 1

\* an update that leaves every row as it is
SetNotCurrent_None(diagrams, session_id) == diagrams

\* ArchitectureDiagram.query.filter_by(session_id=session_id).update({'is_current': False})
SetNotCurrent(diagrams, session_id) ==
  [i \in 1..Len(diagrams) |->
     IF diagrams[i].session_id = session_id THEN [diagrams[i] EXCEPT !.is_current = FALSE]
     ELSE diagrams[i]]

\* the diagram added with its version, v being get_next_version(session_id)
AddDiagram(diagrams, session_id, mermaid_code, v) ==
  Append(diagrams, ArchitectureDiagram(session_id, mermaid_code, v, TRUE))

\* save_architecture_diagram: the two tables after the call, and diagram.id
save_architecture_diagram(diagrams, components, session_id, mermaid_code) ==
  [diagrams |-> AddDiagram(SetNotCurrent(diagrams, session_id), session_id, mermaid_code,
                           get_next_version(SetNotCurrent(diagrams, session_id), session_id)),
   components |-> parse_and_save_components(components, Len(diagrams) + 1, mermaid_code),
   id |-> Len(diagrams) + 1]

\* the requests to send_message that are in flight together
MaxRequests == 2
Reqs == 1..MaxRequests

\* the local variables of one request to send_message and the place it is at:
\* "start", "rejected" (400 or 404), "counted", "flushed", "done", "failed"
Handling(pc, session_id, msg_count, diagram_id) ==
  [pc |-> pc, session_id |-> session_id, msg_count |-> msg_count, diagram_id |-> diagram_id]
NotReceived == Handling("start", 0, 0, 0)

(***************************************************************************)
(* State                                                                   *)
(***************************************************************************)
VARIABLES
  san_src,     \* the text handed to sanitize_mermaid
  san_out,     \* sanitize_mermaid(san_src)
  san_again,   \* sanitize_mermaid(san_out)
  san_pc,      \* "start", "once" (san_out is set), "twice" (san_again is set)
  ext_content, \* the text handed to extract_json_or_fences
  ext_res,     \* what the call returned or raised
  ext_pc,      \* "start", "done" (ext_res is set)
  clock,       \* time.time(), in seconds
  price_cache, \* _price_cache: key -> (value, expiry)
  catalog,     \* how the retail prices service answers
  hash_seed,   \* the order in which list(set(...)) yields the region variants
  res_log,     \* the resolver calls made so far
  ticks,       \* how often the clock was advanced
  pi_items,    \* the records handed to price_items
  pi_res,      \* what the call returned or raised
  pi_runs,     \* the calls of price_items made so far
  FAIL_OPEN,   \* the setting read from the environment at start
  aoai,        \* how the text-generation service is set up and answers
  mcp_payload, \* the body of the request to /mcp/azure/diagram-tf
  mcp_res,     \* what the handler returned or raised
  mcp_pc,       \* "start", "done" (mcp_res is set)
  inf_name,    \* the label handed to infer_component_type
  inf_res,     \* the type and the provider it returned
  inf_pc,       \* "start", "done" (inf_res is set)
  q_req,       \* the price asked of a resolver: kind, sku and region
  q_res,       \* what the resolver returned or raised
  q_again,     \* the same for the call repeated at once
  q_pc,         \* "start", "once" (q_res is set), "twice" (q_again is set)
  h_req,       \* a request handed to http_get_json or http_post_json
  h_res,       \* the response returned or the exception raised, and the attempts made
  h_pc,         \* "start", "done" (h_res is set)
  f_req,       \* the fetch asked for: the catalog, the filter, the limit
  f_res,       \* what the fetch ended with
  f_pc,         \* "start", "done"
  db_messages, \* the rows of chat_messages
  db_diagrams, \* the rows of architecture_diagrams
  db_components, \* the rows of diagram_components
  rq,          \* the requests to send_message
  c_nodes      \* the nodes of the diagram handed to parse_and_save_components

sanVars == <<san_src, san_out, san_again, san_pc>>
extVars == <<ext_content, ext_res, ext_pc>>
envVars == <<clock, price_cache, catalog, hash_seed>>
resVars == <<res_log, ticks>>
piVars == <<pi_items, pi_res, pi_runs>>
mcpVars == <<FAIL_OPEN, aoai, mcp_payload, mcp_res, mcp_pc>>
infVars == <<inf_name, inf_res, inf_pc>>
quoteVars == <<q_req, q_res, q_again, q_pc>>
cfgVars == <<USE_LIVE_AZURE_PRICES>>
httpVars == <<h_req, h_res, h_pc>>
fetchVars == <<f_req, f_res, f_pc>>
storeVars == <<db_messages, db_diagrams, db_components, rq, c_nodes>>
vars == <<sanVars, extVars, envVars, resVars, piVars, mcpVars, infVars, quoteVars, cfgVars, httpVars, fetchVars, storeVars>>

EmptyCache == <<>>
NoPayload == Payload(FALSE, "", "", "")
NoResponse == HandlerRaised(GenRaised("none", 0, 0), EmptyCache)
NotPriced == price_items(<<>>, EmptyCache, 0, Net("ok", ""), 0)

NoRequest == [kind |-> "", sku |-> "", region |-> ""]
NoQuote == Resolved("none", None, 0, EmptyCache)
NoCall == [verb |-> "", mode |-> "ok", max_retries |-> 0]
NoAnswer == [exc |-> "none", status |-> 0, n |-> 0]

\* the parts of the state a specification leaves alone
SanIdle == san_src = "" /\ san_out = "" /\ san_again = "" /\ san_pc = "idle"
ExtIdle == ext_content = "" /\ ext_res = Extracted("", "") /\ ext_pc = "idle"
EnvIdle == clock = 0 /\ price_cache = EmptyCache /\ catalog = Net("ok", "") /\ hash_seed = 0
ResIdle == res_log = <<>> /\ ticks = 0
PiIdle == pi_items = <<>> /\ pi_res = NotPriced /\ pi_runs = 0
McpIdle ==
  /\ FAIL_OPEN = TRUE /\ aoai = Aoai(FALSE, "ok", NoChoices)
  /\ mcp_payload = NoPayload /\ mcp_res = NoResponse /\ mcp_pc = "idle"
InfIdle == inf_name = "" /\ inf_res = Inferred("", "") /\ inf_pc = "idle"
QuoteIdle == q_req = NoRequest /\ q_res = NoQuote /\ q_again = NoQuote /\ q_pc = "idle"
CfgIdle == USE_LIVE_AZURE_PRICES = TRUE
HttpIdle == h_req = NoCall /\ h_res = NoAnswer /\ h_pc = "idle"
NoFetch == [net |-> Net("ok", ""), q |-> Flt("", "", "", "", "", ""), limit |-> 0]
NoItems == Fetched(<<>>, 0, 0)
FetchIdle == f_req = NoFetch /\ f_res = NoItems /\ f_pc = "idle"
StoreIdle == db_messages = <<>> /\ db_diagrams = <<>> /\ db_components = {} /\ rq = [r \in Reqs |-> NotReceived] /\ c_nodes = <<>>

(***************************************************************************)
(* The sanitizer applied to diagram texts: every concatenation of at most  *)
(* MaxParts pieces of diagram source, well-formed and malformed.           *)
(***************************************************************************)
MaxParts == 3

SanParts ==
  {"graph LR", "flowchart TD", "\n", " ", ";", "A", "-->",
   "A[EC2 Instance] --> B[RDS,Database]",
   "A[Web (v2) app-tier, prod]",
   "subgraph Net (eastus);"}

RECURSIVE Concats(_, _)
Concats(parts, n) ==
  IF n = 0 THEN {""}
  ELSE LET shorter == Concats(parts, n - 1)
       IN  shorter \cup {p \o q : p \in shorter, q \in parts}

SanInit ==
  /\ san_src \in Concats(SanParts, MaxParts)
  /\ san_out = ""
  /\ san_again = ""
  /\ san_pc = "start"
  /\ ExtIdle /\ EnvIdle /\ ResIdle /\ PiIdle /\ McpIdle /\ InfIdle /\ QuoteIdle /\ CfgIdle /\ HttpIdle /\ FetchIdle /\ StoreIdle

\* diagram = sanitize_mermaid(diagram_raw)
Sanitize ==
  /\ san_pc = "start"
  /\ san_out' = sanitize_mermaid(san_src)
  /\ san_pc' = "once"
  /\ UNCHANGED <<san_src, san_again, extVars, envVars, resVars, piVars, mcpVars, infVars, quoteVars, cfgVars, httpVars, fetchVars, storeVars>>

\* the sanitizer run on its own output
SanitizeAgain ==
  /\ san_pc = "once"
  /\ san_again' = sanitize_mermaid(san_out)
  /\ san_pc' = "twice"
  /\ UNCHANGED <<san_src, san_out, extVars, envVars, resVars, piVars, mcpVars, infVars, quoteVars, cfgVars, httpVars, fetchVars, storeVars>>

SanNext == Sanitize \/ SanitizeAgain

SpecSanitize == SanInit /\ [][SanNext]_vars

(***************************************************************************)
(* Properties of the sanitizer                                             *)
(***************************************************************************)
\* C1: sanitize_mermaid is idempotent: sanitizing its own output changes nothing.
C1_Idempotent == san_pc = "twice" => san_again = san_out

\* the lines of a text that are edges, as the sanitizer tells them
IsEdgeLine(line) ==
  \/ PyContains(line, "--") \/ PyContains(line, ".->") \/ PyContains(line, "<->")

\* a header line, one edge line and nothing else but nodes
IsMinimalDiagram(s) ==
  LET lines == PySplitLines(s) IN
  /\ Len(lines) >= 2
  /\ lines[1] = "flowchart TD"
  /\ Cardinality({i \in 1..Len(lines) : IsEdgeLine(lines[i])}) = 1

\* some line of s starts with the canonical header
HasHeaderLine(s) ==
  \E i \in 1..Len(s) :
    /\ StartsAt(s, i, "flowchart TD", FALSE)
    /\ (i = 1 \/ Ch(s, i - 1) = "\n")

LabelEnd(s, j) ==
  LET e == FirstSuch(j, Len(s), LAMBDA k : Ch(s, k) = "]")
  IN  IF e > Len(s) THEN 0 ELSE e

LabelsOf(s) ==
  {SubSeq(s, i + 1, LabelEnd(s, i + 1) - 1) :
     i \in {k \in 1..Len(s) : Ch(s, k) = "[" /\ LabelEnd(s, k + 1) # 0}}

\* C3: no bracketed label of the sanitizer's output contains a comma.
C3_NoCommaInLabel ==
  san_pc # "start" => \A l \in LabelsOf(san_out) : ~PyContains(l, ",")


\* the lines of a text that open with the canonical header
HeaderLinesOf(s) ==
  {i \in 1..Len(PySplitLines(s)) :
     /\ StartsAt(PySplitLines(s)[i], 1, "flowchart TD", FALSE)
     /\ ReSearch(header_re, PySplitLines(s)[i]).ok}

\* C13: for every non-empty input the first line of the output is the header
\* 'flowchart TD' and the output holds that header line exactly once, also
\* when a header keyword first occurs on a later line of the input.
C13_HeaderFirstAndOnce ==
  (san_pc # "start" /\ san_src # "") =>
    /\ 1 \in HeaderLinesOf(san_out)
    /\ Cardinality(HeaderLinesOf(san_out)) = 1

\* C14: for every non-empty input the output ends with exactly one line
\* break, never none and never two or more.
C14_OneTrailingBreak ==
  (san_pc # "start" /\ san_src # "") =>
    /\ PyEndsWith(san_out, "\n")
    /\ ~PyEndsWith(san_out, "\n\n")

\* the kind of a line of a diagram: 'subgraph' and 'end' lines as the
\* sanitizer tells them, edge lines by their arrow, node declarations the rest
IsBoundaryLine(line) == PyStartsWith(line, "subgraph") \/ line = "end"
EndsWithSemi(line) == PyEndsWith(line, ";")

\* C22: in the output every edge line ends with ';' and no node-declaration,
\* 'subgraph' or 'end' line ends with ';', for every input, also for lines
\* split by the newline-insertion repair.
C22_EdgesTerminatedOnly ==
  san_pc # "start" =>
    \A i \in 1..Len(PySplitLines(san_out)) :
      IF IsBoundaryLine(PySplitLines(san_out)[i]) THEN ~EndsWithSemi(PySplitLines(san_out)[i])
      ELSE IF IsEdgeLine(PySplitLines(san_out)[i]) THEN EndsWithSemi(PySplitLines(san_out)[i])
      ELSE ~EndsWithSemi(PySplitLines(san_out)[i])

(***************************************************************************)
(* The extraction applied to model replies: every concatenation of at most *)
(* MaxPieces pieces of a reply, JSON and fenced, whole and cut short.      *)
(***************************************************************************)
MaxPieces == 3

ExtPieces ==
  {"{\"diagram\": \"'''mermaid\\ngraph TD\\nA-->B\\n'''\"",
   "{\"diagram\": 7",
   ", \"terraform\": \"resource x\"",
   ", \"terraform\": null",
   "}",
   "[1]",
   "'''mermaid\ngraph TD\nA-->B\n'''",
   "'''HCL\nx = 1\n'''",
   "'''terraform\nx = 1",
   "Here you go:\n"}

ExtInit ==
  /\ ext_content \in Concats(ExtPieces, MaxPieces)
  /\ ext_res = Extracted("", "")
  /\ ext_pc = "start"
  /\ SanIdle /\ EnvIdle /\ ResIdle /\ PiIdle /\ McpIdle /\ InfIdle /\ QuoteIdle /\ CfgIdle /\ HttpIdle /\ FetchIdle /\ StoreIdle

\* parsed = extract_json_or_fences(content)
Extract ==
  /\ ext_pc = "start"
  /\ ext_res' = extract_json_or_fences(ext_content)
  /\ ext_pc' = "done"
  /\ UNCHANGED <<ext_content, sanVars, envVars, resVars, piVars, mcpVars, infVars, quoteVars, cfgVars, httpVars, fetchVars, storeVars>>

ExtNext == Extract

SpecExtract == ExtInit /\ [][ExtNext]_vars

\* the text can hold neither a JSON object nor a fenced block
NoFieldIn(content) == ~PyContains(content, "{") /\ ~PyContains(content, "'''")

\* C4: extract_json_or_fences never raises, whatever the text (no JSON, JSON
\* that is no object, JSON fields that are no strings, fences cut short, the
\* empty text), and returns a diagram and a terraform field that are both
\* strings, empty when the text holds nothing to find.
C4_ExtractTotal ==
  ext_pc = "done" =>
    /\ ext_res.exc = "none"
    /\ ext_res.diagram \in STRING
    /\ ext_res.terraform \in STRING
    /\ NoFieldIn(ext_content) => (ext_res.diagram = "" /\ ext_res.terraform = "")

\* a reply that is JSON with a field that is no string: the try block raises
\* AttributeError, and the call still returns
C4_Witness ==
  /\ ext_pc = "done"
  /\ TryFields(JsonLoads(ext_content)).exc = "AttributeError"
  /\ ext_res.exc = "none"

(***************************************************************************)
(* The resolvers called over time: the clock advances, the prices service  *)
(* changes its behaviour, and each call is logged with the requests it     *)
(* sent.                                                                   *)
(***************************************************************************)
MaxCalls == 2
MaxTicks == 2

\* the steps of the clock: a moment, and just less than the life of an entry
ClockSteps == {1, TTL - 1}
ResNets == {Net("ok", ""), Net("transport", "")}
VmSizes == {"B2s", "Z9"}
AppServiceSkus == {"S1"}

\* one logged call: its cache key, its time, and what it returned or raised
Call(key, at, r) == [key |-> key, at |-> at, exc |-> r.exc, val |-> r.val, n |-> r.n]

ResInit ==
  /\ clock = 0
  /\ price_cache = EmptyCache
  /\ catalog \in ResNets
  /\ hash_seed \in {0, 1}
  /\ res_log = <<>>
  /\ ticks = 0
  /\ SanIdle /\ ExtIdle /\ PiIdle /\ McpIdle /\ InfIdle /\ QuoteIdle /\ CfgIdle /\ HttpIdle /\ FetchIdle /\ StoreIdle

Tick(d) ==
  /\ ticks < MaxTicks
  /\ clock' = clock + d
  /\ ticks' = ticks + 1
  /\ UNCHANGED <<price_cache, catalog, hash_seed, res_log, sanVars, extVars, piVars, mcpVars, infVars, quoteVars, cfgVars, httpVars, fetchVars, storeVars>>

NetChange(n) ==
  /\ n # catalog
  /\ catalog' = n
  /\ UNCHANGED <<clock, price_cache, hash_seed, resVars, sanVars, extVars, piVars, mcpVars, infVars, quoteVars, cfgVars, httpVars, fetchVars, storeVars>>

\* a resolver returned or raised r for the cache key
Resolve(key, r) ==
  /\ Len(res_log) < MaxCalls
  /\ price_cache' = r.cache
  /\ res_log' = Append(res_log, Call(key, clock, r))
  /\ UNCHANGED <<clock, catalog, hash_seed, ticks, sanVars, extVars, piVars, mcpVars, infVars, quoteVars, cfgVars, httpVars, fetchVars, storeVars>>

ResolveVm(size) ==
  Resolve("az.vm." \o DEFAULT_REGION \o "." \o size,
          azure_price_for_vm_size(price_cache, clock, catalog, hash_seed, size, DEFAULT_REGION))

ResolveAppService(sku) ==
  Resolve("az.appservice." \o DEFAULT_REGION \o "." \o sku,
          azure_price_for_app_service_sku(price_cache, clock, catalog, hash_seed, sku, DEFAULT_REGION))

ResNext ==
  \/ \E d \in ClockSteps : Tick(d)
  \/ \E n \in ResNets : NetChange(n)
  \/ \E size \in VmSizes : ResolveVm(size)
  \/ \E sku \in AppServiceSkus : ResolveAppService(sku)

SpecResolve == ResInit /\ [][ResNext]_vars

\* two calls of one resolver for one key, the later less than TTL after the
\* earlier
SameKeyWithinTtl(i, j) ==
  /\ i < j
  /\ res_log[i].key = res_log[j].key
  /\ res_log[j].at - res_log[i].at < TTL

\* C5 as stated: two calls of a resolver for the same key within the life of
\* a cache entry send at most one request to the prices service in total
C5_AtMostOneCall ==
  \A i, j \in 1..Len(res_log) :
    SameKeyWithinTtl(i, j) => res_log[i].n + res_log[j].n <= 1

\* call i fetched a price from the prices service, and so stored it
FetchedPrice(i) == res_log[i].exc = "none" /\ res_log[i].val.some /\ res_log[i].n > 0

\* C5: when a resolver call fetched a price from the prices service, a later
\* call for the same key less than TTL seconds after it sends no request to
\* the prices service and returns the same price
C5_CachedWithinTtl ==
  \A i, j \in 1..Len(res_log) :
    (SameKeyWithinTtl(i, j) /\ FetchedPrice(i))
      => /\ res_log[j].n = 0
         /\ res_log[j].exc = "none"
         /\ res_log[j].val = res_log[i].val

\* a call that fetched a price, the clock advanced, the service gone, and the
\* call repeated
C5_Witness ==
  \E i, j \in 1..Len(res_log) :
    /\ SameKeyWithinTtl(i, j)
    /\ FetchedPrice(i)
    /\ res_log[j].at = res_log[i].at + TTL - 1
    /\ catalog.mode = "transport"
    /\ res_log[j].n = 0

\* call i is the last call so far that fetched a price for its key
LastFetch(i) ==
  /\ FetchedPrice(i)
  /\ \A k \in (i + 1)..Len(res_log) :
       res_log[k].key = res_log[i].key => ~FetchedPrice(k)

\* C15: an entry of the price cache is returned by cache_get only strictly
\* before its expiry, TTL seconds after the fetch that stored it; from the
\* expiry on cache_get reports it absent, and a call of the resolver for its
\* key sends requests to the prices service again.
C15_AbsentFromExpiry ==
  \A i \in 1..Len(res_log) :
    LastFetch(i) =>
      /\ price_cache[res_log[i].key].exp = res_log[i].at + TTL
      /\ cache_get(price_cache, res_log[i].key, clock) =
           IF clock < res_log[i].at + TTL THEN res_log[i].val ELSE None
      /\ \A j \in (i + 1)..Len(res_log) :
           (res_log[j].key = res_log[i].key /\ res_log[j].at >= res_log[i].at + TTL)
             => res_log[j].n > 0

\* a price fetched, the clock advanced to the expiry of the entry exactly,
\* and the call repeated: it fetched again
C15_Witness ==
  /\ Len(res_log) = 2
  /\ res_log[1].key = res_log[2].key
  /\ FetchedPrice(1) /\ FetchedPrice(2)
  /\ res_log[2].at = res_log[1].at + TTL
  /\ clock = res_log[2].at

(***************************************************************************)
(* price_items called with a list of records, and called again with the    *)
(* same list, while the prices service behaves in one of several ways.     *)
(***************************************************************************)
MaxItems == 2

PiNets ==
  {Net("ok", ""), Net("flaky", ""), Net("transport", ""),
   Net("transport", "Virtual Machines"), Net("busy", "Virtual Machines"),
   Net("denied", "Storage")}

\* the records: a VM for ten hours, three VMs named in capitals, a VM size
\* the catalog lacks, two App Service plans for seven hours, 250 GB of
\* storage, and a record of another cloud
ItemKinds ==
  {Item("azure", "vm", "B2s", 1, 10),
   Item("Azure", "VM", "B2s", 3, 0),
   Item("azure", "vm", "Z9", 1, 0),
   Item("azure", "app_service", "S1", 2, 7),
   [Item("azure", "storage", "LRS", 1, 0) EXCEPT !.size_gb = 250],
   Item("aws", "ec2", "t3.micro", 1, 0)}

ItemLists == UNION {[1..k -> ItemKinds] : k \in 0..MaxItems}

PiInit ==
  /\ clock = 0
  /\ price_cache = EmptyCache
  /\ catalog \in PiNets
  /\ hash_seed \in {0, 1}
  /\ PiIdle
  /\ SanIdle /\ ExtIdle /\ ResIdle /\ McpIdle /\ InfIdle /\ QuoteIdle /\ CfgIdle /\ HttpIdle /\ FetchIdle /\ StoreIdle

\* cost = price_items(items), r being what the call returns or raises
Price(items, r) ==
  /\ pi_items' = items
  /\ pi_res' = r
  /\ pi_runs' = pi_runs + 1
  /\ price_cache' = r.cache
  /\ UNCHANGED <<clock, catalog, hash_seed, resVars, sanVars, extVars, mcpVars, infVars, quoteVars, cfgVars, httpVars, fetchVars, storeVars>>

PriceItems(items) ==
  /\ pi_runs = 0
  /\ Price(items, price_items(items, price_cache, clock, catalog, hash_seed))

\* the same request once more, the cache holding what the first one stored
PriceAgain ==
  /\ pi_runs = 1
  /\ Price(pi_items, price_items(pi_items, price_cache, clock, catalog, hash_seed))

PiNext ==
  \/ \E items \in ItemLists : PriceItems(items)
  \/ PriceAgain

SpecPrice == PiInit /\ [][PiNext]_vars

\* the services price_items looks up in the catalog, under the serviceName
\* the queries of their resolver carry
CatalogService ==
  [vm |-> "Virtual Machines", storage |-> "Storage", azure_sql |-> "SQL Database",
   lb |-> "Load Balancer", app_gateway |-> "Application Gateway", app_service |-> ""]

NeedsCatalog(it) ==
  /\ PyLower(it.cloud) = "azure"
  /\ PyLower(it.service) \in DOMAIN CatalogService

\* the lookup for the record fails: its requests raise or are answered with
\* a status of 300 or more
LookupFails(it) ==
  /\ NeedsCatalog(it)
  /\ catalog.mode \in {"transport", "busy", "denied"}
  /\ catalog.only \in {"", CatalogService[PyLower(it.service)]}

\* the notes price_items gathered about the record
NotesAbout(it) ==
  SelectSeq(pi_res.notes,
            LAMBDA nt : nt.service = PyLower(it.service) /\ nt.sku = it.sku)

\* C6 as stated: with the catalog unreachable, pricing a record that needs it
\* does not raise, prices the record at zero with a total of 0.00, and
\* gathers exactly one note about the record
C6_UnreachableOneNote ==
  (/\ pi_runs > 0
   /\ catalog = Net("transport", "")
   /\ Len(pi_items) = 1
   /\ NeedsCatalog(pi_items[1]))
    => /\ pi_res.exc = "none"
       /\ Len(pi_res.ret.items) = 1
       /\ pi_res.ret.items[1].unit_monthly = 0
       /\ pi_res.ret.items[1].monthly = 0
       /\ pi_res.ret.total_estimate = 0
       /\ Len(NotesAbout(pi_items[1])) = 1

\* the unit price the record gets from a catalog that answers
HealthyUnit(it) ==
  price_items(<<it>>, EmptyCache, clock, Net("ok", ""), hash_seed).ret.items[1].unit_monthly

\* C7: a catalog failure while one record is priced never ends the call: the
\* call returns one item for each record, in the order of the records, the
\* record whose lookup failed priced at zero with a note about it, every
\* other record priced as a catalog that answers prices it
C7_FailureIsolated ==
  pi_runs > 0 =>
    /\ pi_res.exc = "none"
    /\ Len(pi_res.ret.items) = Len(pi_items)
    /\ \A i \in 1..Len(pi_items) :
         /\ pi_res.ret.items[i].service = PyLower(pi_items[i].service)
         /\ pi_res.ret.items[i].sku = pi_items[i].sku
         /\ pi_res.ret.items[i].qty = pi_items[i].qty
         /\ IF LookupFails(pi_items[i])
              THEN /\ pi_res.ret.items[i].unit_monthly = 0
                   /\ pi_res.ret.items[i].monthly = 0
                   /\ Len(NotesAbout(pi_items[i])) > 0
              ELSE pi_res.ret.items[i].unit_monthly = HealthyUnit(pi_items[i])

\* requests for VM prices raise; the VM record comes first and is priced at
\* zero, the storage record after it is priced
C7_Witness ==
  /\ pi_runs > 0
  /\ catalog = Net("transport", "Virtual Machines")
  /\ Len(pi_items) = 2
  /\ pi_items[1].service = "vm"
  /\ pi_items[2].service = "storage"
  /\ pi_res.exc = "none"
  /\ pi_res.ret.items[1].unit_monthly = 0
  /\ pi_res.ret.items[2].monthly > 0
  /\ \E k \in 1..Len(pi_res.notes) : pi_res.notes[k].kind = "lookup_failed"

RECURSIVE SumMonthly(_, _)
SumMonthly(out, i) == IF i > Len(out) THEN 0 ELSE out[i].monthly + SumMonthly(out, i + 1)

\* C8: the total of the summary is the sum, in whole cents, of the monthly
\* amounts of its items, each rounded to the cent
C8_TotalIsSumOfRounded ==
  (pi_runs > 0 /\ pi_res.exc = "none")
    => pi_res.ret.total_estimate = SumMonthly(pi_res.ret.items, 1)

\* two items whose amounts before rounding are no whole cents: ten hours of
\* a VM are 41.6 cents, rounded 42, and the total is 84
C8_Witness ==
  /\ pi_runs > 0
  /\ Len(pi_res.ret.items) = 2
  /\ \A i \in 1..2 : pi_res.ret.items[i].hours = 10 /\ pi_res.ret.items[i].monthly = 42
  /\ pi_res.ret.total_estimate = 84

(***************************************************************************)
(* price_items with live prices switched on or off                         *)
(***************************************************************************)
SettingInit ==
  /\ clock = 0
  /\ price_cache = EmptyCache
  /\ catalog \in {Net("ok", ""), Net("transport", "")}
  /\ hash_seed = 0
  /\ USE_LIVE_AZURE_PRICES \in BOOLEAN
  /\ PiIdle
  /\ SanIdle /\ ExtIdle /\ ResIdle /\ McpIdle /\ InfIdle /\ QuoteIdle /\ HttpIdle /\ FetchIdle /\ StoreIdle

SpecSetting == SettingInit /\ [][PiNext]_vars

\* the record is not looked up in the catalog: its cloud is not azure, or
\* live prices are switched off
NotLive(it) == PyLower(it.cloud) # "azure" \/ ~USE_LIVE_AZURE_PRICES

LiveOnly(items) == SelectSeq(items, LAMBDA it : ~NotLive(it))

MaxQty == 3

\* sizes in GB: none, 0.3, 1.2 and 250
RecordSizes == {<<0, 0>>, <<0, 3>>, <<1, 2>>, <<250, 0>>}
RecordServices ==
  {<<"vm", "B2s">>, <<"app_service", "S1">>, <<"storage", "LRS">>, <<"lb", "Standard">>,
   <<"app_gateway", "WAF_v2">>, <<"aks", "standard">>}
Records ==
  {[Item("azure", s[1], s[2], qty, hours) EXCEPT !.size_gb = size[1], !.size_dec = size[2]] :
     s \in RecordServices, qty \in 1..MaxQty, hours \in {0, 10, 100}, size \in RecordSizes}

RecordInit ==
  /\ clock = 0
  /\ price_cache = EmptyCache
  /\ catalog = Net("ok", "")
  /\ hash_seed = 0
  /\ PiIdle
  /\ SanIdle /\ ExtIdle /\ ResIdle /\ McpIdle /\ InfIdle /\ QuoteIdle /\ CfgIdle /\ HttpIdle /\ FetchIdle /\ StoreIdle

\* cost = price_items([it])
PriceRecord(it) == PriceItems(<<it>>)

RecordNext == \E it \in Records : PriceRecord(it)

SpecRecord == RecordInit /\ [][RecordNext]_vars

\* the unit price price_items resolves for the record, in 1/10 cent
ResolvedUnit(it) ==
  OrNoPrice(Fields(it),
            AfterLookup(Fields(it),
                        Lookup(Fields(it), EmptyCache, clock, catalog, hash_seed))).unit.v

\* the hours of the record, the standard month when it gives none
RequestedHours(it) == IF it.hours = 0 THEN HOURS_PER_MONTH ELSE it.hours

\* unit * qty * (hours / HOURS_PER_MONTH) rounded to cents, unit in 1/10 cent;
\* the ratio 1 is left out of the product
ProductRounded(it, unit) ==
  IF RequestedHours(it) = HOURS_PER_MONTH THEN RoundHalfEven(unit * it.qty, 10)
  ELSE RoundHalfEven(unit * it.qty * RequestedHours(it), 10 * HOURS_PER_MONTH)

\* C25: the monthly figure of a record is its resolved unit price times the
\* quantity times requested hours / HOURS_PER_MONTH (ratio 1 when the record
\* gives no hours), rounded to 2 decimals; so it is the reported unit_monthly
\* times qty whenever the hours are the standard month.
C25_MonthlyIsUnitTimesQty ==
  (pi_runs = 1 /\ Len(pi_items) = 1 /\ pi_res.exc = "none") =>
    /\ pi_res.ret.items[1].monthly = ProductRounded(pi_items[1], ResolvedUnit(pi_items[1]))
    /\ RequestedHours(pi_items[1]) = HOURS_PER_MONTH
         => pi_res.ret.items[1].monthly
              = pi_res.ret.items[1].unit_monthly * pi_res.ret.items[1].qty

(***************************************************************************)
(* One request to /mcp/azure/diagram-tf, the text-generation service being *)
(* out of order in one of four ways, or answering with one of the replies. *)
(***************************************************************************)
\* the replies of the model: JSON with both fields, JSON with a fenced
\* terraform field, JSON with an empty field, JSON with a blank diagram, JSON
\* with a number for the diagram, prose, nothing, and fenced blocks
Replies ==
  {"{\"diagram\": \"graph TD\\nA[Web App] --> B[SQL Database]\", \"terraform\": \"resource x\"}",
   "{\"diagram\": \"graph LR\\nA[VM] --> B[Blob Storage]\", \"terraform\": \"'''hcl\\nresource y\\n'''\"}",
   "{\"diagram\": \"graph TD\\nA-->B\", \"terraform\": \"\"}",
   "{\"diagram\": \"  \\n \", \"terraform\": \"resource x\"}",
   "{\"diagram\": 7, \"terraform\": \"resource x\"}",
   "Sorry, I cannot help with that.",
   "",
   "Here you go:\n'''mermaid\nflowchart TD\nA[AKS] --> B[App Gateway]\n'''\n'''terraform\nresource y\n'''\n",
   "'''mermaid\ngraph TD\nA-->B\n'''"}

AoaiKinds ==
  {Aoai(FALSE, "ok", NoChoices), Aoai(TRUE, "transport", NoChoices),
   Aoai(TRUE, "busy", NoChoices), Aoai(TRUE, "denied", NoChoices),
   Aoai(TRUE, "ok", NoChoices)}
    \cup {Aoai(TRUE, mode, Completion(reply)) : mode \in {"ok", "flaky"}, reply \in Replies}

Payloads ==
  {Payload(FALSE, "", "", ""), Payload(TRUE, "shop", "", ""),
   Payload(TRUE, "", "2 vms and blob storage", "westeurope")}

McpInit ==
  /\ FAIL_OPEN \in BOOLEAN
  /\ aoai \in AoaiKinds
  /\ mcp_payload = NoPayload
  /\ mcp_res = NoResponse
  /\ mcp_pc = "start"
  /\ clock = 0
  /\ price_cache = EmptyCache
  /\ catalog \in {Net("ok", ""), Net("transport", "")}
  /\ hash_seed = 0
  /\ SanIdle /\ ExtIdle /\ ResIdle /\ PiIdle /\ InfIdle /\ QuoteIdle /\ CfgIdle /\ HttpIdle /\ FetchIdle /\ StoreIdle

\* the handler ran for the request and returned or raised r
Handled(payload, r) ==
  /\ mcp_payload' = payload
  /\ mcp_res' = r
  /\ mcp_pc' = "done"
  /\ price_cache' = r.cache
  /\ UNCHANGED <<FAIL_OPEN, aoai, clock, catalog, hash_seed, resVars, piVars, sanVars, extVars, infVars, quoteVars, cfgVars, httpVars, fetchVars, storeVars>>

Handle(payload) ==
  /\ mcp_pc = "start"
  /\ Handled(payload, azure_mcp(payload, FAIL_OPEN, aoai, price_cache, clock, catalog, hash_seed))

McpNext == \E payload \in Payloads : Handle(payload)

SpecHandler == McpInit /\ [][McpNext]_vars

\* the diagram a caller receives in place of a generated one
FallbackShown ==
  "flowchart TD\n"
    \o "A[Internet] -->|HTTPS| B[Azure Front Door];\n"
    \o "B -->|HTTPS| C[Azure Application Gateway];\n"
    \o "C -->|WAF| H[Web Application Firewall];\n"
    \o "C -->|HTTPS| D[Web Tier - Azure App Service];\n"
    \o "D -->|HTTPS| E[Application Tier - Azure App Service];\n"
    \o "E -->|TCP 1433| F[Azure SQL Database];\n"

\* the response carries the fallback pair
IsFallback(r) ==
  r.exc = "none" /\ r.diagram = FallbackShown /\ r.terraform = FALLBACK_TF

\* text generation fails: the service is not configured, every request
\* raises, every response is 503 until the retries are used up, or the
\* response is 404
GenerationFails == ~aoai.configured \/ aoai.mode \in {"transport", "busy", "denied"}

\* C9: when text generation fails, the handler returns the fallback diagram
\* and the fallback code if fail-open is enabled, and raises the error of the
\* failure if it is disabled
C9_FailOpenFallback ==
  (mcp_pc = "done" /\ GenerationFails)
    => IF FAIL_OPEN THEN IsFallback(mcp_res)
       ELSE /\ mcp_res.exc \in {"HTTPException", "RequestException"}
            /\ mcp_res.status >= 400

\* every response of the service was 503, fail-open is on, and the caller
\* got the fallback pair with a cost for it
C9_Witness ==
  /\ mcp_pc = "done"
  /\ FAIL_OPEN
  /\ aoai.configured /\ aoai.mode = "busy"
  /\ IsFallback(mcp_res)
  /\ Len(mcp_res.cost.items) > 0

\* the service answered, and the text yields an empty diagram or an empty
\* terraform field
ExtractionFails ==
  /\ aoai.configured
  /\ aoai.mode \in {"ok", "flaky"}
  /\ aoai.body.kind = "completion"
  /\ \/ PyStrip(extract_json_or_fences(aoai.body.content).diagram) = ""
     \/ PyStrip(extract_json_or_fences(aoai.body.content).terraform) = ""

\* the cost of the fallback pair for the request
FallbackCost ==
  price_items(normalize_to_items(Ask(mcp_payload), FallbackShown, FALLBACK_TF, mcp_payload.region),
              EmptyCache, clock, catalog, hash_seed).ret

\* C10 as stated: an extraction failure never fails the request, whatever
\* the fail-open setting: the handler returns the fallback diagram
C10_NeverFails ==
  (mcp_pc = "done" /\ ExtractionFails) => IsFallback(mcp_res)

\* C10: with fail-open enabled an extraction failure does not fail the
\* request, the handler returns the fallback diagram and the cost of the
\* fallback pair; with fail-open disabled the request fails with ValueError
C10_FailOpenOnly ==
  (mcp_pc = "done" /\ ExtractionFails)
    => IF FAIL_OPEN THEN IsFallback(mcp_res) /\ mcp_res.cost = FallbackCost
       ELSE mcp_res.exc = "ValueError" /\ mcp_res.status = 500

\* the model answered with prose, fail-open is on, and the caller got the
\* fallback pair
C10_Witness ==
  /\ mcp_pc = "done"
  /\ FAIL_OPEN
  /\ aoai = Aoai(TRUE, "ok", Completion("Sorry, I cannot help with that."))
  /\ IsFallback(mcp_res)
  /\ mcp_res.cost.total_estimate > 0

(***************************************************************************)
(* infer_component_type applied to the labels of a diagram: every label    *)
(* of at most MaxWords words, a blank between two words.                   *)
(***************************************************************************)
MaxWords == 2

LabelWords ==
  {"Load Balancer", "EC2", "RDS", "db", "S3 Bucket", "API Gateway",
   "Application Gateway", "Lambda", "VPC", "AKS", "Web", "Users"}

RECURSIVE Labels(_)
Labels(n) ==
  IF n = 1 THEN LabelWords
  ELSE Labels(n - 1) \cup {l \o " " \o w : l \in Labels(n - 1), w \in LabelWords}

InfInit ==
  /\ inf_name \in Labels(MaxWords)
  /\ inf_res = Inferred("", "")
  /\ inf_pc = "start"
  /\ SanIdle /\ ExtIdle /\ EnvIdle /\ ResIdle /\ PiIdle /\ McpIdle /\ QuoteIdle /\ CfgIdle /\ HttpIdle /\ FetchIdle /\ StoreIdle

\* ctype, provider = infer_component_type(name)
Infer ==
  /\ inf_pc = "start"
  /\ inf_res' = infer_component_type(inf_name)
  /\ inf_pc' = "done"
  /\ UNCHANGED <<inf_name, sanVars, extVars, envVars, resVars, piVars, mcpVars, quoteVars, cfgVars, httpVars, fetchVars, storeVars>>

InfNext == Infer

SpecInfer == InfInit /\ [][InfNext]_vars

(***************************************************************************)
(* Properties of infer_component_type                                      *)
(***************************************************************************)
\* the keyword table, in its order
TypeTable ==
  <<[ctype |-> "VM", words |-> VmWords],
    [ctype |-> "Database", words |-> DatabaseWords],
    [ctype |-> "LoadBalancer", words |-> LoadBalancerWords],
    [ctype |-> "Storage", words |-> StorageWords],
    [ctype |-> "APIGateway", words |-> APIGatewayWords],
    [ctype |-> "Function", words |-> FunctionWords],
    [ctype |-> "Network", words |-> NetworkWords],
    [ctype |-> "Kubernetes", words |-> KubernetesWords]>>

\* the rows with a keyword that occurs in the label, letter case aside
MatchingRows(label) ==
  {r \in 1..Len(TypeTable) :
     \E w \in TypeTable[r].words : PyContains(PyLower(label), w)}

\* C12: infer_component_type gives each label one type, that of the earliest
\* row of the keyword table with a keyword that occurs in the label, letter
\* case aside, and Other when no row has one; 'Load Balancer' is a LoadBalancer.
C12_FirstMatchWins ==
  inf_pc = "done" =>
    /\ IF MatchingRows(inf_name) = {} THEN inf_res.ctype = "Other"
       ELSE \E r \in MatchingRows(inf_name) :
              /\ \A q \in MatchingRows(inf_name) : r <= q
              /\ inf_res.ctype = TypeTable[r].ctype
    /\ inf_name = "Load Balancer" => inf_res.ctype = "LoadBalancer"

\* a label with keywords of two rows, typed by the earlier row
C12_Witness ==
  /\ inf_pc = "done"
  /\ inf_name = "Application Gateway"
  /\ MatchingRows(inf_name) = {3, 5}
  /\ inf_res.ctype = "LoadBalancer"

(***************************************************************************)
(* One price asked of a resolver, the cache empty, and asked again at      *)
(* once: every resolver, regions of the region table and one outside it,   *)
(* the prices service answering, refusing or unreachable, and listing its  *)
(* rows in one order or the other.                                         *)
(***************************************************************************)
Request(kind, sku, region) == [kind |-> kind, sku |-> sku, region |-> region]

Regions == DOMAIN REGION_NAME_MAP \cup {"uksouth"}
Requests ==
  {Request(k.kind, k.sku, region) :
     k \in {Request("vm", "B2s", ""), Request("vm", "Z9", ""),
            Request("appservice", "S1", ""), Request("sql", "S0", ""),
            Request("sql", "P1", ""), Request("storage", "", ""),
            Request("lb", "", ""), Request("appgw", "", "")},
     region \in Regions}
QuoteNets ==
  {NetIn(mode, "", order) : mode \in {"ok", "denied", "transport"},
                            order \in {"listed", "reversed"}}

\* the resolver price_items calls for the service of a record
ResolverCall(req, cache, now, net, seed) ==
  IF req.kind = "vm" THEN azure_price_for_vm_size(cache, now, net, seed, req.sku, req.region)
  ELSE IF req.kind = "appservice"
    THEN azure_price_for_app_service_sku(cache, now, net, seed, req.sku, req.region)
  ELSE IF req.kind = "sql" THEN azure_price_for_sql(cache, now, net, seed, req.sku, req.region)
  ELSE IF req.kind = "storage"
    THEN azure_price_for_storage_lrs_per_gb(cache, now, net, seed, req.region)
  ELSE IF req.kind = "lb" THEN azure_price_for_lb_components(cache, now, net, seed, req.region)
  ELSE azure_price_for_appgw_wafv2_components(cache, now, net, seed, req.region)

QuoteInit ==
  /\ q_req \in Requests
  /\ q_res = NoQuote
  /\ q_again = NoQuote
  /\ q_pc = "start"
  /\ clock = 0
  /\ price_cache = EmptyCache
  /\ catalog \in QuoteNets
  /\ hash_seed \in {0, 1}
  /\ SanIdle /\ ExtIdle /\ ResIdle /\ PiIdle /\ McpIdle /\ InfIdle /\ CfgIdle /\ HttpIdle /\ FetchIdle /\ StoreIdle

\* the resolver returned or raised r
Quoted(r) ==
  /\ q_pc = "start"
  /\ q_res' = r
  /\ price_cache' = r.cache
  /\ q_pc' = "once"
  /\ UNCHANGED <<q_req, q_again, clock, catalog, hash_seed, resVars, sanVars, extVars,
                 piVars, mcpVars, infVars, cfgVars, httpVars, fetchVars, storeVars>>

Quote == Quoted(ResolverCall(q_req, price_cache, clock, catalog, hash_seed))

\* the same call, repeated at once: r is what it returned or raised
QuotedAgain(r) ==
  /\ q_pc = "once"
  /\ q_again' = r
  /\ price_cache' = r.cache
  /\ q_pc' = "twice"
  /\ UNCHANGED <<q_req, q_res, clock, catalog, hash_seed, resVars, sanVars, extVars,
                 piVars, mcpVars, infVars, cfgVars, httpVars, fetchVars, storeVars>>

QuoteAgain == QuotedAgain(ResolverCall(q_req, price_cache, clock, catalog, hash_seed))

QuoteNext == Quote \/ QuoteAgain

SpecQuote == QuoteInit /\ [][QuoteNext]_vars

(***************************************************************************)
(* Properties of the resolvers                                             *)
(***************************************************************************)
Range(seq) == {seq[i] : i \in 1..Len(seq)}
CatalogRows == Range(RetailRows)

\* the catalog has a row of the virtual machine size under the region name
HasVmRow(size, reg) ==
  \E row \in CatalogRows :
    /\ row.serviceName = "Virtual Machines"
    /\ row.skuName = size
    /\ row.armRegionName = reg

\* C11: region_variants of a region code of the region table holds the code
\* and its display name, and when the catalog has no row under the code but
\* one under the display name, the resolver returns a price.
C11_DisplayNameFallback ==
  (q_pc # "start" /\ q_req.region \in DOMAIN REGION_NAME_MAP) =>
    /\ q_req.region \in Range(region_variants(q_req.region, hash_seed))
    /\ REGION_NAME_MAP[q_req.region] \in Range(region_variants(q_req.region, hash_seed))
    /\ (/\ q_req.kind = "vm"
        /\ catalog.mode = "ok"
        /\ ~HasVmRow(q_req.sku, q_req.region)
        /\ HasVmRow(q_req.sku, REGION_NAME_MAP[q_req.region]))
         => (q_res.exc = "none" /\ q_res.val.some)

\* the size B2s asked for eastus2: the catalog lists it under 'US East 2' only
C11_Witness ==
  /\ q_pc = "once"
  /\ q_req = Request("vm", "B2s", "eastus2")
  /\ catalog.mode = "ok"
  /\ ~HasVmRow("B2s", "eastus2")
  /\ q_res.val = Some(3796)

\* no row of the catalog lies in a variant of the region asked for
NoRowInRegion ==
  \A row \in CatalogRows :
    row.armRegionName \notin Range(region_variants(q_req.region, hash_seed))

\* C17: when no candidate is found after all region variants and fallback
\* queries, the resolver returns None, not 0, and puts nothing into the price
\* cache, so that the call repeated goes to the prices service again; the
\* cache holds an entry only after a call that returned a price.
C17_AbsentNotCached ==
  /\ (q_pc # "start" /\ (catalog.mode = "denied" \/ NoRowInRegion) /\ catalog.mode # "transport")
       => /\ q_res = Resolved("none", None, q_res.n, EmptyCache)
          /\ q_res.n > 0
          /\ price_cache = EmptyCache
          /\ q_pc = "twice" => q_again = q_res
  /\ price_cache # EmptyCache
       => (q_res.exc = "none" /\ q_res.val.some)

\* a database price asked for a region the catalog has no row of, twice
C17_Witness ==
  /\ q_pc = "twice"
  /\ q_req = Request("sql", "S0", "uksouth")
  /\ catalog.mode = "ok"
  /\ q_res.val = None
  /\ q_again.n = q_res.n
  /\ price_cache = EmptyCache

\* the rows the storage resolver examines: the LRS rows of the Storage
\* service in a variant of the region
StorageCandidates ==
  {row \in CatalogRows :
     /\ row.serviceName = "Storage"
     /\ PyContains(row.skuName, "LRS")
     /\ row.armRegionName \in Range(region_variants(q_req.region, hash_seed))}

\* C19: the price a resolver returns is the least monthly price of the
\* candidates it examined, whatever the order in which the catalog lists
\* them, candidates with a monthly price that rounds to 0 included.
C19_MinimumOfCandidates ==
  (q_pc # "start" /\ q_req.kind = "storage" /\ catalog.mode = "ok" /\ StorageCandidates # {})
    => /\ q_res.val.some
       /\ \E row \in StorageCandidates : monthly_from_retail(row) = q_res.val.v
       /\ \A row \in StorageCandidates : q_res.val.v <= monthly_from_retail(row)

\* the rows the App Service resolver gathers: the rows of the plan under one
\* of its service names, or with its product name, in a variant of the region
AppServiceGathered ==
  {row \in CatalogRows :
     /\ \/ \E i \in 1..Len(AppServiceCandidates) : row.serviceName = AppServiceCandidates[i]
        \/ PyContains(row.productName, "App Service")
     /\ row.skuName = q_req.sku
     /\ row.armRegionName \in Range(region_variants(q_req.region, hash_seed))}

\* C20: when one of the candidates a resolver gathers, over every region
\* variant and service name, is billed per hour, the price it returns is that
\* of a per-hour meter.
C20_HourlyPreferred ==
  (/\ q_pc # "start" /\ q_req.kind = "appservice" /\ catalog.mode = "ok"
   /\ \E row \in AppServiceGathered : IsHourly(row))
    => /\ q_res.val.some
       /\ \E row \in AppServiceGathered : IsHourly(row) /\ monthly_from_retail(row) = q_res.val.v

(***************************************************************************)
(* http_get_json and http_post_json called once, the service answering     *)
(* every attempt with one status, refusing the connection, or recovering   *)
(* after the first attempt.                                                *)
(***************************************************************************)
MaxRetries == 3

HttpModes == DOMAIN StatusTable \cup {"transport", "flaky", "hiccup"}
HttpCalls ==
  [verb : {"get", "post"}, mode : HttpModes, max_retries : 0..MaxRetries]
\* the query of the GET: any filter will do
HttpQuery == Flt("Virtual Machines", "", "B2s", "", "", "eastus")

HttpInit ==
  /\ h_req \in HttpCalls
  /\ h_res = NoAnswer
  /\ h_pc = "start"
  /\ SanIdle /\ ExtIdle /\ EnvIdle /\ ResIdle /\ PiIdle /\ McpIdle /\ InfIdle /\ QuoteIdle /\ CfgIdle /\ FetchIdle /\ StoreIdle

\* r = http_get_json(url, params, max_retries)
Get ==
  /\ h_pc = "start"
  /\ h_req.verb = "get"
  /\ h_res' = http_get_json(Net(h_req.mode, ""), HttpQuery, h_req.max_retries, 0)
  /\ h_pc' = "done"
  /\ UNCHANGED <<h_req, sanVars, extVars, envVars, resVars, piVars, mcpVars, infVars,
                 quoteVars, cfgVars, fetchVars, storeVars>>

\* resp = http_post_json(url, headers, body, max_retries)
Post ==
  /\ h_pc = "start"
  /\ h_req.verb = "post"
  /\ h_res' = http_post_json(h_req.mode, h_req.max_retries, 0)
  /\ h_pc' = "done"
  /\ UNCHANGED <<h_req, sanVars, extVars, envVars, resVars, piVars, mcpVars, infVars,
                 quoteVars, cfgVars, fetchVars, storeVars>>

HttpNext == Get \/ Post

SpecHttp == HttpInit /\ [][HttpNext]_vars

(***************************************************************************)
(* Properties of the two helpers                                           *)
(***************************************************************************)
\* what attempt k (from 0) of the call meets: "transport" or a mode of
\* StatusTable
AttemptOutcome(k) ==
  IF h_req.verb = "get" THEN RequestOutcome(Net(h_req.mode, ""), HttpQuery, k)
  ELSE PostOutcome(h_req.mode, k)

\* attempt k is followed by another one, retryable being the statuses retried
Retried(k, retryable) ==
  /\ k < h_req.max_retries
  /\ \/ AttemptOutcome(k) = "transport"
     \/ StatusTable[AttemptOutcome(k)] \in retryable

\* the call ends with its first attempt that is not retried: it returns the
\* response of that attempt, or raises when the attempt failed in transport
EndsAtFirstNotRetried(retryable) ==
  h_pc = "done" =>
    /\ h_res.n >= 1 /\ h_res.n <= h_req.max_retries + 1
    /\ ~Retried(h_res.n - 1, retryable)
    /\ \A k \in 0..(h_res.n - 2) : Retried(k, retryable)
    /\ IF AttemptOutcome(h_res.n - 1) = "transport"
         THEN h_res.exc = "RequestException"
         ELSE h_res.exc = "none" /\ h_res.status = StatusTable[AttemptOutcome(h_res.n - 1)]

\* C18 as stated: the helpers retry on 408, 409, 429, on every status from
\* 500 to 599 and on a transport failure, while fewer than max_retries
\* retries were made; any other status is returned after the one attempt; a
\* call makes at most max_retries + 1 attempts and returns or raises.
C18_RetryOnAny5xx == EndsAtFirstNotRetried({408, 409, 429} \cup (500..599))

\* C18 amended: the statuses retried are 408, 409, 429, 500, 502, 503 and
\* 504; a response with another status, 501 and 505 among them, is returned
\* after the one attempt.
C18_RetryOnListed == EndsAtFirstNotRetried({408, 409, 429, 500, 502, 503, 504})

\* a POST answered 503 four times with three retries allowed, the last
\* response returned
C18_Witness ==
  /\ h_pc = "done"
  /\ h_req = [verb |-> "post", mode |-> "busy", max_retries |-> 3]
  /\ h_res = [exc |-> "none", status |-> 503, n |-> 4]

(***************************************************************************)
(* azure_retail_prices_fetch called once with a filter and a limit, the    *)
(* catalog answering in one of its modes.                                  *)
(***************************************************************************)
MaxLimit == 3

FetchNets ==
  {NetIn(mode, "", order) :
     mode \in {"ok", "endless", "flaky", "hiccup", "busy", "denied", "transport"},
     order \in {"listed", "reversed"}}
\* filters with three rows, two rows, one row and no row in the catalog
FetchFilters ==
  {Flt("Virtual Machines", "", "B2s", "", "", "eastus"),
   Flt("Storage", "", "", "", "", "eastus"),
   Flt("Storage", "", "", "LRS", "", "northeurope"),
   Flt("Virtual Machines", "", "B2s", "", "", "westeurope"),
   Flt("Virtual Machines", "", "B2s", "", "", "uksouth")}
FetchCalls == [net : FetchNets, q : FetchFilters, limit : 1..MaxLimit]

FetchInit ==
  /\ f_req \in FetchCalls
  /\ f_res = NoItems
  /\ f_pc = "start"
  /\ SanIdle /\ ExtIdle /\ EnvIdle /\ ResIdle /\ PiIdle /\ McpIdle /\ InfIdle /\ QuoteIdle /\ CfgIdle /\ HttpIdle /\ StoreIdle

\* items = azure_retail_prices_fetch(flt, limit)
Fetch ==
  /\ f_pc = "start"
  /\ f_res' = azure_retail_prices_fetch(f_req.net, f_req.q, f_req.limit)
  /\ f_pc' = "done"
  /\ UNCHANGED <<f_req, sanVars, extVars, envVars, resVars, piVars, mcpVars, infVars,
                 quoteVars, cfgVars, httpVars, storeVars>>

FetchCallNext == Fetch

SpecFetch == FetchInit /\ [][FetchCallNext]_vars

(***************************************************************************)
(* Properties of the fetch                                                 *)
(***************************************************************************)
\* the pages of the answer up to and including the first without a
\* NextPageLink
PagesLinked(net, q) ==
  IF net.mode = "endless" THEN MaxTries + 2
  ELSE IF Len(Matching(net, q)) = 0 THEN 1
  ELSE (Len(Matching(net, q)) + PageSize - 1) \div PageSize

\* C21: the fetch ends under every behaviour of the catalog, also when every
\* page carries a next-page link: it asks for at most 21 pages, for none
\* after a page without a next-page link, and returns at most limit items.
C21_BoundedFetch ==
  f_pc = "done" =>
    /\ f_res.pages <= 21
    /\ f_res.pages <= PagesLinked(f_req.net, f_req.q)
    /\ Len(f_res.items) <= f_req.limit

\* a catalog whose every page carries a link was followed for 21 pages
C21_Witness ==
  /\ f_pc = "done"
  /\ f_req.net.mode = "endless"
  /\ f_res.exc = "none"
  /\ f_res.pages = 21
  /\ f_res.n = 21

(***************************************************************************)
(* send_message: requests handled side by side, each in a transaction of   *)
(* its own.  A request reads and writes the store statement by statement,  *)
(* and the statements of the requests interleave.  The client is           *)
(* initialised.                                                            *)
(***************************************************************************)
\* the rows of chat_sessions
Sessions == {1, 2}
\* session_id of a request: 0 when the request has none, 3 names no session
SessionIds == {0, 1, 2, 3}
\* the stripped message of a request
MessageTexts == {"", "design a web app"}
\* what generate_ai_response returns: the mermaid block of the answer, ""
\* for an answer without one
Answers == {"", "graph TD\nA[Web App]"}

ChatInit ==
  /\ db_messages = <<>> /\ db_diagrams = <<>> /\ db_components = {}
  /\ rq = [r \in Reqs |-> NotReceived]
  /\ c_nodes = <<>>
  /\ SanIdle /\ ExtIdle /\ EnvIdle /\ ResIdle /\ PiIdle /\ McpIdle /\ InfIdle /\ QuoteIdle /\ CfgIdle /\ HttpIdle /\ FetchIdle

\* from the top of send_message to msg_count = ...count()
Receive(r, session_id, message) ==
  /\ rq[r].pc = "start"
  /\ rq' = [rq EXCEPT ![r] =
       IF session_id = 0 \/ message = "" \/ session_id \notin Sessions
         THEN Handling("rejected", session_id, 0, 0)
       ELSE Handling("counted", session_id, MessageCount(db_messages, session_id, r), 0)]
  /\ UNCHANGED <<db_messages, db_diagrams, db_components, c_nodes, sanVars, extVars, envVars,
                 resVars, piVars, mcpVars, infVars, quoteVars, cfgVars, httpVars, fetchVars>>

\* db.session.add(user_msg); db.session.flush()
FlushUser(r) ==
  /\ rq[r].pc = "counted"
  /\ db_messages' = Flush(db_messages,
                          ChatMessage(rq[r].session_id, "user", rq[r].msg_count + 1, r, r))
  /\ rq' = [rq EXCEPT ![r].pc = "flushed"]
  /\ UNCHANGED <<db_diagrams, db_components, c_nodes, sanVars, extVars, envVars,
                 resVars, piVars, mcpVars, infVars, quoteVars, cfgVars, httpVars, fetchVars>>

\* the tables after "if mermaid: diagram_id = save_architecture_diagram(...)"
Saved(session_id, mermaid) ==
  IF mermaid = "" THEN [diagrams |-> db_diagrams, components |-> db_components, id |-> 0]
  ELSE save_architecture_diagram(db_diagrams, db_components, session_id, mermaid)

\* generate_ai_response returns: the try block to its end
Respond(r, mermaid) ==
  /\ rq[r].pc = "flushed"
  /\ db_messages' =
       Commit(Append(db_messages,
                     ChatMessage(rq[r].session_id, "assistant", rq[r].msg_count + 2, r, r)), r)
  /\ db_diagrams' = Saved(rq[r].session_id, mermaid).diagrams
  /\ db_components' = Saved(rq[r].session_id, mermaid).components
  /\ rq' = [rq EXCEPT ![r].pc = "done", ![r].diagram_id = Saved(rq[r].session_id, mermaid).id]
  /\ UNCHANGED <<c_nodes, sanVars, extVars, envVars,
                 resVars, piVars, mcpVars, infVars, quoteVars, cfgVars, httpVars, fetchVars>>

\* generate_ai_response raises: the except clause
Fail(r) ==
  /\ rq[r].pc = "flushed"
  /\ db_messages' = Rollback(db_messages, r)
  /\ rq' = [rq EXCEPT ![r].pc = "failed"]
  /\ UNCHANGED <<db_diagrams, db_components, c_nodes, sanVars, extVars, envVars,
                 resVars, piVars, mcpVars, infVars, quoteVars, cfgVars, httpVars, fetchVars>>

ChatNext ==
  \E r \in Reqs :
    \/ \E session_id \in SessionIds, message \in MessageTexts : Receive(r, session_id, message)
    \/ FlushUser(r)
    \/ \E mermaid \in Answers : Respond(r, mermaid)
    \/ Fail(r)

SpecChat == ChatInit /\ [][ChatNext]_vars

(***************************************************************************)
(* Properties of send_message                                              *)
(***************************************************************************)
\* the persisted messages of a session, in the order of their insertion
Persisted(session_id) ==
  SelectSeq(db_messages, LAMBDA row : row.tx = 0 /\ row.session_id = session_id)

\* C23: after any interleaving of requests on one session the message_order
\* values of its persisted messages are pairwise distinct and increase in
\* insertion order, and the user message of a request comes directly before
\* its assistant message.
C23_OrdersDistinctAndIncreasing ==
  \A s \in Sessions :
    /\ \A i, j \in 1..Len(Persisted(s)) :
         i < j => Persisted(s)[i].message_order < Persisted(s)[j].message_order
    /\ \A i \in 1..Len(Persisted(s)) :
         Persisted(s)[i].message_type = "user" =>
           /\ i < Len(Persisted(s))
           /\ Persisted(s)[i + 1].req = Persisted(s)[i].req
           /\ Persisted(s)[i + 1].message_type = "assistant"
           /\ Persisted(s)[i + 1].message_order = Persisted(s)[i].message_order + 1

\* the persisted rows of chat_messages
Committed(messages) == SelectSeq(messages, LAMBDA row : row.tx = 0)

\* the step takes request r to the place pc
Reaches(r, pc) == rq[r].pc # pc /\ rq'[r].pc = pc

\* C27: a request whose AI call fails leaves the store as it was: each of its
\* steps, from its arrival to the rollback, leaves the persisted messages,
\* the diagrams and the components unchanged, it has saved no diagram, and
\* after the rollback no message the request wrote is left, so the count of
\* the session's messages is the one before the request.
C27_FailureLeavesStoreUnchanged ==
  [][\A r \in Reqs :
       (Reaches(r, "counted") \/ Reaches(r, "flushed") \/ Reaches(r, "failed")) =>
         /\ Committed(db_messages') = Committed(db_messages)
         /\ db_diagrams' = db_diagrams
         /\ db_components' = db_components
         /\ rq'[r].diagram_id = 0
         /\ Reaches(r, "failed") =>
              /\ \A i \in 1..Len(db_messages') : db_messages'[i].req # r
              /\ MessageCount(db_messages', rq[r].session_id, r)
                   = MessageCount(db_messages, rq[r].session_id, 0)]_vars

\* a request failed in a session that holds the two messages of an earlier
\* request, and the session still holds these two
C27_Witness ==
  /\ rq[1].pc = "done" /\ rq[2].pc = "failed"
  /\ rq[1].session_id = 1 /\ rq[2].session_id = 1
  /\ rq[2].msg_count = 2
  /\ Len(db_messages) = 2
  /\ Len(Persisted(1)) = 2

(***************************************************************************)
(* save_architecture_diagram called time after time, for one session or    *)
(* the other, each call ending before the next begins.                     *)
(***************************************************************************)
MaxSaves == 4

\* the mermaid blocks saved
SaveTexts == {"graph TD\nA[Web App]", "graph TD\nA[Web App] --> B((SQL Database))"}

SaveInit ==
  /\ StoreIdle
  /\ SanIdle /\ ExtIdle /\ EnvIdle /\ ResIdle /\ PiIdle /\ McpIdle /\ InfIdle /\ QuoteIdle /\ CfgIdle /\ HttpIdle /\ FetchIdle

\* diagram_id = save_architecture_diagram(session_id, mermaid, ai_response)
Save(session_id, mermaid_code) ==
  /\ Len(db_diagrams) < MaxSaves
  /\ db_diagrams' =
       save_architecture_diagram(db_diagrams, db_components, session_id, mermaid_code).diagrams
  /\ db_components' =
       save_architecture_diagram(db_diagrams, db_components, session_id, mermaid_code).components
  /\ UNCHANGED <<db_messages, rq, c_nodes, sanVars, extVars, envVars,
                 resVars, piVars, mcpVars, infVars, quoteVars, cfgVars, httpVars, fetchVars>>

SaveNext == \E session_id \in Sessions, mermaid_code \in SaveTexts : Save(session_id, mermaid_code)

SpecSave == SaveInit /\ [][SaveNext]_vars

(***************************************************************************)
(* Properties of the diagram versions                                      *)
(***************************************************************************)
\* the diagrams of a session, in the order in which they were saved
DiagramsOf(session_id) == SelectSeq(db_diagrams, LAMBDA row : row.session_id = session_id)

\* C24: after any sequence of saves each session with a diagram has exactly
\* one diagram that is current, the one with the highest version; the
\* versions of a session are distinct and grow by 1 with each save.
C24_OneCurrentHighestVersion ==
  \A s \in Sessions :
    \A k \in 1..Len(DiagramsOf(s)) :
      /\ DiagramsOf(s)[k].version = k
      /\ DiagramsOf(s)[k].is_current <=> k = Len(DiagramsOf(s))

\* three saves for one session and one for the other in between
C24_Witness ==
  /\ Len(DiagramsOf(1)) = 3
  /\ Len(DiagramsOf(2)) = 1
  /\ db_diagrams[2].session_id = 2
  /\ db_diagrams[4].version = 3
  /\ db_diagrams[4].is_current
  /\ ~db_diagrams[1].is_current

(***************************************************************************)
(* A diagram of a few nodes saved once: its text is written out from the   *)
(* nodes, one declaration to a line and an edge from each node to the      *)
(* next, and parse_and_save_components reads the labels back from it.      *)
(***************************************************************************)
MaxNodes == 2

\* the node shapes of Mermaid that carry a label: A[x], A((x)), A{{x}}, A(x)
Shapes == {"square", "circle", "hexagon", "round"}
NodeTexts == {"Web App", "SQL Database", "Cache"}
Node(shape, label) == [shape |-> shape, label |-> label]
NodeLists == UNION {[1..k -> {Node(sh, l) : sh \in Shapes, l \in NodeTexts}] : k \in 0..MaxNodes}

NodeIds == <<"A", "B", "C", "D", "E">>
Opening == [square |-> "[", circle |-> "((", hexagon |-> "{{", round |-> "("]
Closing == [square |-> "]", circle |-> "))", hexagon |-> "}}", round |-> ")"]
RECURSIVE Declarations(_, _)
Declarations(nodes, i) ==
  IF i > Len(nodes) THEN ""
  ELSE "\n  " \o NodeIds[i] \o Opening[nodes[i].shape] \o nodes[i].label
         \o Closing[nodes[i].shape] \o Declarations(nodes, i + 1)
RECURSIVE Edges(_, _)
Edges(nodes, i) ==
  IF i >= Len(nodes) THEN ""
  ELSE "\n  " \o NodeIds[i] \o " --> " \o NodeIds[i + 1] \o Edges(nodes, i + 1)
\* the mermaid text of the diagram
Drawn(nodes) == "graph TD" \o Declarations(nodes, 1) \o Edges(nodes, 1)

CompInit ==
  /\ StoreIdle
  /\ SanIdle /\ ExtIdle /\ EnvIdle /\ ResIdle /\ PiIdle /\ McpIdle /\ InfIdle /\ QuoteIdle /\ CfgIdle /\ HttpIdle /\ FetchIdle

\* save_architecture_diagram(1, mermaid_code, description), with its call of
\* parse_and_save_components(diagram.id, mermaid_code)
SaveDrawn(nodes) ==
  /\ db_diagrams = <<>>
  /\ c_nodes' = nodes
  /\ db_diagrams' =
       save_architecture_diagram(db_diagrams, db_components, 1, Drawn(nodes)).diagrams
  /\ db_components' =
       save_architecture_diagram(db_diagrams, db_components, 1, Drawn(nodes)).components
  /\ UNCHANGED <<db_messages, rq, sanVars, extVars, envVars,
                 resVars, piVars, mcpVars, infVars, quoteVars, cfgVars, httpVars, fetchVars>>

CompNext == \E nodes \in NodeLists : SaveDrawn(nodes)

SpecComponents == CompInit /\ [][CompNext]_vars

(***************************************************************************)
(* Properties of the components                                            *)
(***************************************************************************)
\* the names of the components stored for the diagram
ComponentNames(diagram_id) ==
  {row.component_name : row \in {c \in db_components : c.diagram_id = diagram_id}}

\* C26: parse_and_save_components stores exactly one component per distinct
\* node label of the diagram, whatever the shape of the node: a label that
\* occurs several times gives one component, and a node gives no component
\* but the one named by its label.
C26_OneComponentPerLabel ==
  Len(db_diagrams) = 1 =>
    /\ ComponentNames(1) = {c_nodes[i].label : i \in 1..Len(c_nodes)}
    /\ \A name \in ComponentNames(1) :
         Cardinality({c \in db_components : c.diagram_id = 1 /\ c.component_name = name}) = 1

=============================================================================
